----------------------------- MODULE MCEventPages -----------------------------
(* Small instances of EventPages for TLC.                                   *)
EXTENDS EventPages

\* The first connection has a collection on either side of the second's.
MCOwner == <<1, 2, 1>>

\* One connection with two collections.
MCOneOwner == <<1, 1>>
=============================================================================
