------------------------------- MODULE MCSpi -------------------------------
(* Instances of Spi for model checking: one code of each kind. *)
EXTENDS Spi

NoData == {18, 32}         \* 0x12, 0x20
FixedData == {34, 68}      \* 0x22: one byte, 0x44: two
OpenData == {36, 38}       \* 0x24, 0x26
Unknown == {2}             \* 0x02
OutOfTable == {119, 255}   \* 0x77: unknown, 0xFF: known

SheetCodes == NoData \cup FixedData \cup OpenData
AllCodes == SheetCodes \cup Unknown \cup OutOfTable
============================================================================
