------------------------- MODULE MCPersistentStorage -------------------------
(* PersistentStorage with what goes wrong: nothing, one thing at a time,   *)
(* and everything.                                                         *)
EXTENDS PersistentStorage

Some == {{}, AllFaults} \cup {{f} : f \in AllFaults}
RenameFails == {{"rename"}}
Nothing == {{}}
=============================================================================
