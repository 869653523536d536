--------------------------- MODULE MCNativeBridge ---------------------------
(* NativeBridge with two threads, two scanners and as many C strings.       *)
EXTENDS NativeBridge

CONSTANTS t1, t2, o1, o2, a1, a2

MCThreads == {t1, t2}
MCObjects == {o1, o2}
MCAddresses == {a1, a2}
=============================================================================
