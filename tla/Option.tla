------------------------------- MODULE Option -------------------------------
(***************************************************************************)
(* Rust's Option<T>.  A value of type Option<T> is an element of T or the  *)
(* one value None, which is in no other set of the project.                *)
(***************************************************************************)

CONSTANT None       \* Option::None; give it a model value

\* Option::or(b): this value when there is one, b otherwise.
or(a, b) == IF a = None THEN b ELSE a

=============================================================================
