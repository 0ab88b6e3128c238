------------------------------ MODULE PlayCalls ------------------------------
(* What cuts the hosts of a play into batches and what selects its tasks:    *)
(* GroupHostBySerial, JoinTag and IsEnabled, each called on its own.         *)
EXTENDS HostSerial, Tags, PureCalls

CONSTANTS
    HostLists,    \* the hosts a play may have; a play without hosts is skipped before
    SerialLists,  \* what serial may be, a set of sequences
    UserTags      \* tags without a meaning of their own

ASSUME PlayCallsAssumption ==
    /\ HostLists \subseteq Seq(UNION {{hosts[i] : i \in DOMAIN hosts} : hosts \in HostLists}) \ {<< >>}
    /\ SerialLists \subseteq Seq(SerialEntry(Int))

SerialCalls == [op : {"serial"}, hosts : HostLists, serial : SerialLists]

TagCalls ==
    [op : {"tags"},
     child : SUBSET (UserTags \cup {AlwaysTag, NeverTag}),
     parent : SUBSET (UserTags \cup {AlwaysTag, NeverTag}),
     only : SUBSET (UserTags \cup {AllTag, TaggedTag}),
     skip : SUBSET (UserTags \cup {AllTag, TaggedTag, AlwaysTag})]

\* dealSerial of the executor.
CutHosts == CallStep("serial", GroupHostBySerial(call.hosts, call.serial))

\* blockExecutor.dealTags, then the check before dealTask.
SelectTask == CallStep("tags", IsEnabled(JoinTag(call.child, call.parent), call.only, call.skip))

PlayNext == CutHosts \/ SelectTask

PlayCallsSpec == CallInit(SerialCalls \cup TagCalls) /\ [][PlayNext]_callVars

-----------------------------------------------------------------------------
(* serial *)

Cut == answer.op = "serial"

Wanted == Sizes(call.serial, Len(call.hosts))

AllPositive == \A i \in DOMAIN call.serial : Wanted[i] > 0

\* The sizes before the last one leave hosts for it.
LastIsReached ==
    call.serial = << >> \/ SumUpTo(Wanted)[Len(call.serial) - 1] < Len(call.hosts)

Flattened(b) ==
    LET flat[k \in 0..Len(b)] == IF k = 0 THEN << >> ELSE flat[k - 1] \o b[k]
    IN flat[Len(b)]

\* The size batch i should have: its entry, or the last one.
WantedSize(i) == IF i <= Len(call.serial) THEN Wanted[i] ELSE Wanted[Len(call.serial)]

\* As documented for serial: the batches are the hosts in order, each host in one
\* batch, none empty, each of its fixed size except that the last may be smaller.
Documented ==
    LET b == answer.out.batches IN
    /\ answer.out.kind = "ok"
    /\ Flattened(b) = call.hosts
    /\ \A i \in DOMAIN b : b[i] # << >>
    /\ call.serial # << >> =>
         \A i \in DOMAIN b : IF i < Len(b) THEN Len(b[i]) = WantedSize(i)
                             ELSE Len(b[i]) <= WantedSize(i)

\* GroupHostBySerial cuts the hosts into the documented batches whenever the
\* sizes are positive and leave hosts for the last entry of serial.
BatchesPartition == Cut /\ AllPositive /\ LastIsReached => Documented

\* 002-playbook.md: an array of serial numbers groups the hosts by fixed
\* quantity (so a play with hosts never meets an empty batch).
SerialArrayGroups == Cut /\ AllPositive => Documented

-----------------------------------------------------------------------------
(* tags *)

\* All tags of a task: its own and those of the block it is in.
AllTagsOf(c) == c.child \cup c.parent

\* Without the special tags a block decides for all that is in it: when it is
\* skipped, so is every task in it, and when its tags are asked for its tasks
\* run, whatever tags they have themselves.  What always and never make of it is
\* another matter (SpecialTagsObeyed).
SubtreeSelection ==
    answer.op = "tags" =>
      /\ Skipped(call.parent, call.skip) /\ AlwaysTag \notin AllTagsOf(call) => ~ answer.out
      /\ Selected(call.parent, call.only) /\ NeverTag \notin AllTagsOf(call) /\ call.skip = {}
         => answer.out

\* 002-playbook.md: "always always executes, never never executes" (the code skips
\* what is always to run, and runs what is never to when no tags are asked for).
SpecialTagsObeyed ==
    answer.op = "tags" =>
      /\ AlwaysTag \in AllTagsOf(call) /\ NeverTag \notin AllTagsOf(call) => answer.out
      /\ NeverTag \in AllTagsOf(call) /\ AlwaysTag \notin AllTagsOf(call) => ~ answer.out
=============================================================================
