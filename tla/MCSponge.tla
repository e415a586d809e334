------------------------------ MODULE MCSponge ------------------------------
(* Small instance: blocks of three bytes, three bits a byte, and the SHAKE *)
(* separator shares a bit with the message, so padding can cancel it.      *)
EXTENDS Sponge

MCBytes   == {Zero, {"lo"}}
MCChunk   == UNION {[1 .. n -> MCBytes] : n \in 0 .. 2} \cup
             {<<{"lo"}, Zero, {"lo"}>>, <<Zero, {"lo"}, Zero, Zero>>,
              <<{"lo"}, {"lo"}, Zero, {"lo"}, Zero, Zero, {"lo"}>>}
MCShakeSep == {"lo", "mid"}    \* 0x1F
MCSha3Sep  == {"mid"}          \* 0x06
MCGarbage == {ZeroBlock, [ZeroBlock EXCEPT ![0] = {"lo"}, ![Rate - 1] = {"hi"}]}
=============================================================================
