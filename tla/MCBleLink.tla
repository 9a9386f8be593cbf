----------------------------- MODULE MCBleLink -----------------------------
(***************************************************************************)
(* Small instances of BleLink: packets of 3 payload bytes, bitmap bytes of *)
(* two bits.  Command a fills a whole bitmap byte (2 packets), b does not  *)
(* (3 packets); reply r fits one packet, s takes three fragments.          *)
(***************************************************************************)
EXTENDS BleLink, TLC

CONSTANTS a, b, r, s

MCSize == [m \in Msgs |-> IF m = a THEN 5 ELSE 8]
MCRSize == [x \in Replies |-> IF x = r THEN 1 ELSE 6]
=============================================================================
