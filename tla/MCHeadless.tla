----------------------------- MODULE MCHeadless -----------------------------
(***************************************************************************)
(* Small instance of Headless for TLC: two ports and the two that are just *)
(* outside the range, packets of a one-byte header and two copies of a     *)
(* one-byte address, and files of up to two entries.                       *)
(***************************************************************************)
EXTENDS Headless

MCPorts == {1024, 65535}

Values == {"valid", "not_an_object", "wrong_keys", "bad_interface",
           "bad_gateway"}
Entries == [port : MCPorts \cup {1023, 65536}, quoted : BOOLEAN,
            value : {"valid"}]
              \cup [port : {1024}, quoted : {FALSE}, value : Values]
MCDocuments == UNION {[1 .. n -> Entries] : n \in 0 .. 2}
=============================================================================
