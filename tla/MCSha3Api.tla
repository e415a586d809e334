----------------------------- MODULE MCSha3Api ------------------------------
(* Small instance: blocks of three bytes and digests of two; a byte of the *)
(* message shares a bit with the SHAKE separator.                          *)
EXTENDS Sha3Api

MCBytes    == {Zero, {"lo"}}
MCChunk    == UNION {[1 .. n -> MCBytes] : n \in 0 .. 3} \cup
              {<<{"lo"}, {"lo"}, Zero, {"lo"}, Zero, Zero, {"lo"}>>}
MCShakeSep == {"lo", "mid"}    \* 0x1F
MCSha3Sep  == {"mid"}          \* 0x06
MCGarbage  == {ZeroBlock, [ZeroBlock EXCEPT ![0] = {"lo"}, ![Rate - 1] = {"hi"}]}
=============================================================================
