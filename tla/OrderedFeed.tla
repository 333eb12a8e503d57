------------------------------ MODULE OrderedFeed ------------------------------
(* What a bounded, ordered pipe promises its consumer, and nothing about how:   *)
(* while the feed is open the consumer has received a prefix of what was sent   *)
(* to it, in order and without a gap, and once the feed is cut it receives      *)
(* nothing more.  A new consumer starts from an empty feed.                     *)
(*                                                                              *)
(* The command channel to an EDOPro core (CoreChannel, one feed) and the        *)
(* delivery of duel events to the plugins (DuelEventHub, one feed each) both    *)
(* implement it.                                                                *)
EXTENDS Sequences, SequencesExt

CONSTANT Feeds

VARIABLES
  sent,   \* feed -> what was addressed to its current consumer, in order
  got,    \* feed -> what the consumer received, in order
  open    \* the feeds whose consumer is connected

vars == <<sent, got, open>>

Init == open \subseteq Feeds /\ \A f \in Feeds : sent[f] = <<>> /\ got[f] = <<>>

(* The producer adds to the feed, the consumer takes from it, or both.          *)
Flow(f) ==
  /\ f \in open /\ f \in open'
  /\ IsPrefix(sent[f], sent'[f])
  /\ IsPrefix(got[f], got'[f])
  /\ IsPrefix(got'[f], sent'[f])

(* The consumer is cut off; what it has not received is gone.                   *)
Cut(f) == f \in open \ open' /\ IsPrefix(sent[f], sent'[f]) /\ got'[f] = got[f]

(* Another consumer takes its place.                                            *)
Renew(f) == sent'[f] = <<>> /\ got'[f] = <<>> /\ f \in open'

Quiet(f) == sent'[f] = sent[f] /\ got'[f] = got[f] /\ (f \in open' <=> f \in open)

(* The feeds do not wait for each other.                                        *)
Next == \A f \in Feeds : Flow(f) \/ Cut(f) \/ Renew(f) \/ Quiet(f)

Spec == Init /\ [][Next]_vars
================================================================================
