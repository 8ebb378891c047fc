--------------------------- MODULE TrustOnFirstUse ---------------------------
(***************************************************************************)
(* What the pin store promises: one register per service processor that    *)
(* takes the first certificate and no other until it is emptied on         *)
(* purpose.  PinStore, with its file, locks, caches and crashes, implements *)
(* this module.                                                            *)
(***************************************************************************)
EXTENDS FiniteSets

CONSTANTS Hosts, Certs, NoPin, Torn

VARIABLES
  pin,       \* what is recorded of each processor
  accepted   \* history: the certificates accepted since it was last forgotten

tvars == <<pin, accepted>>

\* The values the registers can hold.
TofuTypeOK ==
  /\ pin \in [Hosts -> Certs \cup {NoPin, Torn}]
  /\ accepted \in [Hosts -> SUBSET Certs]

TofuInit ==
  /\ pin = [h \in Hosts |-> NoPin]
  /\ accepted = [h \in Hosts |-> {}]

\* A certificate is accepted when it is the one recorded, or is the first.
Accept(h, c) ==
  /\ pin[h] \in {NoPin, c}
  /\ pin' = [pin EXCEPT ![h] = c]
  /\ accepted' = [accepted EXCEPT ![h] = @ \cup {c}]

\* A process that stops between recording a pin and using it leaves it, whole
\* or in part; an empty register may be filled so, and no other.
Record(h, c) ==
  /\ pin[h] = NoPin
  /\ pin' = [pin EXCEPT ![h] = c]
  /\ UNCHANGED accepted

Forget(h) ==
  /\ pin' = [pin EXCEPT ![h] = NoPin]
  /\ accepted' = [accepted EXCEPT ![h] = {}]

TofuNext ==
  \E h \in Hosts :
    \/ \E c \in Certs : Accept(h, c)
    \/ \E c \in Certs \cup {Torn} : Record(h, c)
    \/ Forget(h)

TofuSpec == TofuInit /\ [][TofuNext]_tvars

=============================================================================
