------------------------------ MODULE MCMobile ------------------------------
(* One phone writes; the other reads its mail and changes screens meanwhile. *)
EXTENDS Mobile

CONSTANTS a, b

MCPhone == {a, b}
MCOnboarded == {b}
MCWrites == {<<a, b>>}
MCReaders == {b}
=============================================================================
