------------------------------ MODULE Listing ------------------------------
(* What a list request to any substore has: at most so many items, or a    *)
(* field that is absent.                                                   *)
CONSTANTS
  Limits,  \* the page sizes that are asked for
  None     \* what is absent: a document, a filter, a cursor, a key
==============================================================================
