------------------------------ MODULE MCThread ------------------------------
(* Programs and bounds for checking Thread with TLC.                       *)
EXTENDS Thread

\* Methods, iterators, required files, break, defer, raise and try.
UnwindOps == {"method", "each", "try", "require", "break", "defer", "error"}

\* Everything that nests frames, with blocks passed to methods.
NestOps == {"method", "block", "each", "try", "require", "yield", "break",
            "new", "class", "defer", "error", "gopanic"}
=============================================================================
