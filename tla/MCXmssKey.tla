------------------------------ MODULE MCXmssKey -------------------------------
(* Small instances of XmssKey. C = 4 is the smallest half tree the code takes *)
(* (LOG_LIFETIME = 4): sixteen epochs, four bottom trees.                     *)
EXTENDS XmssKey

CONSTANTS m1, m2

(* One key for the whole lifetime and two for parts of it that have to be     *)
(* rounded out, one of them moved back from the end of the lifetime.          *)
MCRequest == {<<0, 16>>, <<5, 3>>, <<14, 2>>, <<12, 5>>}

(* Both sides of each bottom tree's boundary, and an epoch past the lifetime  *)
(* that a u32 can still name.                                                 *)
MCSignEpoch == {0, 3, 4, 7, 8, 11, 16}

MCMessage == {m1, m2}

(* m2 has no codeword at epochs 4 and 11.                                     *)
MCEncodable == (MCSignEpoch \X MCMessage) \ {<<4, m2>>, <<11, m2>>}

(* A key of lifetime 2^32: the lifetime fills u32 exactly.                    *)
MCFullRequest == {<<0, 16>>, <<9, 7>>}
MCFullSignEpoch == {7, 8, 11, 12, 15}
MCFullEncodable == (MCFullSignEpoch \X MCMessage) \ {<<12, m2>>}
===============================================================================
