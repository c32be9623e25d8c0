---------------------------- MODULE MCValueRange ----------------------------
(* The integral types of D with two, three and five bits for byte, int and   *)
(* long, so that a product of two ints is a long, as with 32 and 64 bits.    *)
EXTENDS ValueRange
MCWidth == [bool |-> 1, byte |-> 2, int |-> 3, uint |-> 3, dchar |-> 3, long |-> 5, ulong |-> 5]
MCUnsigned == {"bool", "uint", "dchar", "ulong"}
MCOperands ==
    [bool |-> {0, 1}, byte |-> {1, 30}, int |-> {0, 1, 2, 28, 31}, uint |-> {0, 1, 5, 7},
     dchar |-> {0, 5}, long |-> {0, 3, 16, 31}, ulong |-> {3, 16, 31}]
=============================================================================
