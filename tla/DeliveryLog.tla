---------------------------- MODULE DeliveryLog ----------------------------
(***************************************************************************)
(* What the observation pull promises, without its batches, retries,       *)
(* timeouts or overlapping runs: a log of the fixes Gundi has received and *)
(* one checkpoint per device.  A checkpoint is only ever moved to a fix    *)
(* that is already in the log, so a fix is never skipped as "already sent" *)
(* before it (or a newer one) has been sent.  When Ordered, checkpoints    *)
(* only move forward and nothing at or below a checkpoint is sent.         *)
(***************************************************************************)
EXTENDS Integers

CONSTANTS
  Devices,   \* the tracked devices (IMEIs)
  Times,     \* the timestamps a fix can carry, all positive
  Ordered    \* TRUE: the promise of a deployment where pulls do not overlap

VARIABLES
  delivered,   \* set of <<device, time>> pairs Gundi has accepted
  checkpoint   \* newest fix recorded per device, 0 when none is

logVars == <<delivered, checkpoint>>

Ahead(o) == o[2] > checkpoint[o[1]]

LogInit ==
  /\ delivered = {}
  /\ checkpoint = [d \in Devices |-> 0]

Deliver ==
  /\ delivered \subseteq delivered'
  /\ delivered' \subseteq Devices \X Times
  /\ Ordered => \A o \in delivered' \ delivered : Ahead(o)
  /\ UNCHANGED checkpoint

Record ==
  \E o \in delivered :
    /\ Ordered => Ahead(o)
    /\ checkpoint' = [checkpoint EXCEPT ![o[1]] = o[2]]
    /\ UNCHANGED delivered

LogNext == Deliver \/ Record

LogSpec == LogInit /\ [][LogNext]_logVars
=============================================================================
