------------------------------ MODULE MCSdCard ------------------------------
(* Two tasks on a card of two sectors of two bytes each; three tries of     *)
(* every step of the initialization; the firmware may have used two pins.   *)
EXTENDS SdCard

CONSTANTS t1, t2

TwoTasks   == {t1, t2}
TwoSectors == {0, 1}
TwoBlocks  == {<<0, 1>>, <<1, 0>>}
TwoPins    == {26, 40}

=============================================================================
