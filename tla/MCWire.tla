------------------------------ MODULE MCWire ------------------------------
(***************************************************************************)
(* Instance of Wire: frames of two to four cells, fewer cells in flight    *)
(* than a frame has, and one frame of every kind the session tells apart.  *)
(***************************************************************************)
EXTENDS Wire

form(type, len, header, checksum, decodes) ==
    [type |-> type, len |-> len, header_ok |-> header, checksum_ok |-> checksum,
     decodes |-> decodes]

MCForms ==
    {form("HELLO", 1, TRUE, TRUE, TRUE),
     form("REQUEST_EVAL", 2, TRUE, TRUE, TRUE),
     form("PING", 0, TRUE, TRUE, TRUE),
     form("RECORD_ATTEMPT", 1, TRUE, FALSE, TRUE),   \* damaged payload
     form("RECORD_ATTEMPT", 1, TRUE, TRUE, FALSE),   \* truncated payload
     form("PING", 0, FALSE, TRUE, TRUE),             \* another version, no payload
     form("HELLO", 1, FALSE, TRUE, TRUE)}            \* another version
===========================================================================
