-------------------------- MODULE ScsiTransportProofs --------------------------
(***************************************************************************)
(* Theorems about ScsiTransport, for every length, every number of         *)
(* commands and every number of failing posts.                             *)
(***************************************************************************)
EXTENDS ScsiTransport, TLAPS

\* What the position in TransferCommand says of the counters, of the device
\* and of the ok flag.
Places ==
    /\ pc = "status" => total = cmd.len
    /\ pc \in {"data", "status"} => ok
    /\ received => pc = "idle" /\ total = cmd.len /\ dev.phase = "cbw"
    /\ dev.phase = "data" => dev.left > 0
    /\ dev.next + dev.left =< MaxLen

\* As long as no retry has shrunk the length field, the chunks moved so far are
\* in place, and in the data loop host and device are at the same chunk.
Lockstep ==
    cmd.dtl = cmd.len =>
        /\ \A j \in 0 .. total - 1 : image[j] = j
        /\ pc = "data" => /\ dev.phase = "data"
                          /\ dev.next = total
                          /\ dev.left = cmd.len - total

IInv == TypeOK /\ InsideBuffer /\ Places /\ Lockstep /\ OkWithoutStatus

-----------------------------------------------------------------------------
\* The length field after a retry: never longer, and still the whole length
\* only if nothing had been moved or everything had.
LEMMA ShrunkFacts ==
    ASSUME NEW dtl \in Nat, NEW diff \in Nat
    PROVE  /\ Shrunk(dtl, diff) \in 0 .. dtl
           /\ Shrunk(dtl, diff) = dtl => diff = 0 \/ diff >= dtl
BY DEF Shrunk

\* An accepted wrapper puts the device at the first chunk.
LEMMA AcceptedFacts ==
    ASSUME NEW dtl \in 0 .. MaxLen
    PROVE  /\ Accepted(dtl) \in Devices
           /\ Accepted(dtl).next = 0
           /\ Accepted(dtl).left = dtl
           /\ dtl > 0 => Accepted(dtl).phase = "data"
           /\ Accepted(dtl).phase = "data" => dtl > 0
BY BoundsAssumption DEF Accepted, Devices

\* One chunk further.
LEMMA MovedFacts ==
    ASSUME TypeOK, Places, dev.phase = "data"
    PROVE  /\ Moved \in Devices
           /\ Moved.next = dev.next + 1
           /\ Moved.left = dev.left - 1
           /\ Moved.phase = (IF dev.left = 1 THEN "csw" ELSE "data")
           /\ Moved.next + Moved.left =< MaxLen
<1>1. /\ dev \in Devices /\ dev.left > 0 /\ dev.next + dev.left =< MaxLen
      /\ dev.next \in 0 .. MaxLen /\ dev.left \in 0 .. MaxLen
  BY DEF TypeOK, Places, Devices
<1>2. /\ Moved.next = dev.next + 1
      /\ Moved.left = dev.left - 1
      /\ Moved.phase = (IF dev.left = 1 THEN "csw" ELSE "data")
  BY <1>1 DEF Moved, Devices
<1>3. dev.next + 1 \in 0 .. MaxLen /\ dev.left - 1 \in 0 .. MaxLen
  BY <1>1, BoundsAssumption
<1>4. Moved \in Devices
  BY <1>1, <1>2, <1>3 DEF Moved, Devices
<1> QED BY <1>1, <1>2, <1>4, BoundsAssumption

LEMMA WaitingFacts ==
    Waiting \in Devices /\ Waiting.phase = "cbw" /\ Waiting.next + Waiting.left =< MaxLen
BY BoundsAssumption DEF Waiting, Devices

LEMMA InitIInv == Init => IInv
<1>1. Init => TypeOK
  <2> SUFFICES ASSUME Init PROVE TypeOK
    OBVIOUS
  <2>1. Blank \in [0 .. MaxLen - 1 -> 0 .. MaxLen]
    BY BoundsAssumption DEF Blank, Untouched
  <2>2. [dir |-> "in", len |-> 0, dtl |-> 0] \in Commands
    BY BoundsAssumption DEF Commands
  <2>3. /\ attempt \in 0 .. Retries - 1 /\ total \in 0 .. MaxLen
        /\ calls \in 0 .. MaxCalls /\ faults \in 0 .. MaxFaults
    BY BoundsAssumption DEF Init, Retries
  <2>4. /\ image \in [0 .. MaxLen - 1 -> 0 .. MaxLen] /\ cmd \in Commands
        /\ dev \in Devices /\ lost \subseteq Losses
    BY <2>1, <2>2, WaitingFacts DEF Init
  <2> QED BY <2>3, <2>4 DEF Init, TypeOK
<1> QED
  BY <1>1, WaitingFacts
  DEF Init, IInv, InsideBuffer, Places, Lockstep, OkWithoutStatus, Waiting

-----------------------------------------------------------------------------
LEMMA CallStep ==
    ASSUME IInv, NEW dir \in {"in", "out"}, NEW len \in 0 .. MaxLen, Call(dir, len)
    PROVE  IInv'
<1> USE DEF IInv
<1>1. CASE Refuse
  <2>1. TypeOK'
    <3>1. calls' \in 0 .. MaxCalls
      BY BoundsAssumption DEF Call, TypeOK
    <3> QED BY <1>1, <3>1 DEF Call, Refuse, TypeOK, Statuses
  <2>2. InsideBuffer' /\ Lockstep'
    BY <1>1 DEF Call, Refuse, InsideBuffer, Lockstep
  <2>3. Places' /\ OkWithoutStatus'
    BY <1>1 DEF Call, Refuse, Places, OkWithoutStatus
  <2> QED BY <2>1, <2>2, <2>3
<1>2. CASE Begin(dir, len)
  <2>a. Blank \in [0 .. MaxLen - 1 -> 0 .. MaxLen]
    BY BoundsAssumption DEF Blank, Untouched
  <2>b. [dir |-> dir, len |-> len, dtl |-> len] \in Commands
    BY DEF Commands
  <2>c. calls' \in 0 .. MaxCalls
    BY BoundsAssumption DEF Call, TypeOK
  <2>1. TypeOK'
    <3>1. attempt' \in 0 .. Retries - 1 /\ total' \in 0 .. MaxLen
      BY <1>2, BoundsAssumption DEF Begin, Retries
    <3>2. lost' \subseteq Losses
      BY <1>2 DEF Begin, Losses
    <3>3. image' \in [0 .. MaxLen - 1 -> 0 .. MaxLen] /\ cmd' \in Commands
      BY <1>2, <2>a, <2>b DEF Begin
    <3>4. UNCHANGED <<ok, dev, faults>>
      BY DEF Call
    <3> QED BY <1>2, <2>c, <3>1, <3>2, <3>3, <3>4 DEF Begin, TypeOK
  <2> QED
    BY <1>2, <2>1, BoundsAssumption
    DEF Call, Begin, TypeOK, InsideBuffer, Places, Lockstep, OkWithoutStatus
<1> QED BY <1>1, <1>2 DEF Call

\* The two ways an attempt without a status can end.
LEMMA ContinueFacts ==
    ASSUME TypeOK, Continue
    PROVE  /\ attempt' \in 0 .. Retries - 1
           /\ status' \in Statuses \union {"none"}
           /\ received' \in BOOLEAN
           /\ dres' \in {"none", "RES_OK", "RES_PARERR"}
           /\ pc' \in {"push", "idle"}
           /\ received' => received
<1>1. CASE /\ attempt + 1 < Retries /\ attempt' = attempt + 1 /\ pc' = "push"
           /\ UNCHANGED <<status, received, dres>>
  BY <1>1 DEF TypeOK, Retries
<1>2. CASE Finish("failed", FALSE)
  BY <1>2 DEF Finish, TypeOK, Statuses
<1> QED BY <1>1, <1>2 DEF Continue

LEMMA PushStep ==
    ASSUME IInv, PushCommand
    PROVE  IInv'
<1> DEFINE dtl == Shrunk(cmd.dtl, total)
<1>a. /\ TypeOK /\ InsideBuffer /\ Places /\ Lockstep
      /\ pc = "push" /\ cmd' = [cmd EXCEPT !.dtl = dtl]
      /\ UNCHANGED <<total, image, calls>>
      /\ ~received
  BY DEF IInv, PushCommand, Places
<1>b. /\ cmd \in Commands /\ cmd.dtl \in Nat /\ cmd.len \in Nat /\ total \in Nat
      /\ cmd.len =< MaxLen
  BY <1>a, BoundsAssumption DEF TypeOK, Commands
<1>c. dtl \in 0 .. cmd.dtl /\ (dtl = cmd.dtl => total = 0 \/ total >= cmd.dtl)
  BY <1>b, ShrunkFacts
<1>d. dtl \in 0 .. MaxLen
  BY <1>a, <1>b, <1>c, BoundsAssumption DEF InsideBuffer
<1>e. /\ cmd' \in Commands /\ cmd'.dtl = dtl /\ cmd'.len = cmd.len /\ cmd'.dir = cmd.dir
  BY <1>a, <1>b, <1>d DEF Commands
<1>f. /\ Accepted(dtl) \in Devices
      /\ Accepted(dtl).next = 0
      /\ Accepted(dtl).left = dtl
      /\ dtl > 0 => Accepted(dtl).phase = "data"
      /\ Accepted(dtl).phase = "data" => dtl > 0
  BY <1>d, AcceptedFacts
<1>g. \A j \in 0 .. total' - 1 : dtl = cmd.len => image'[j] = j
  BY <1>a, <1>b, <1>c DEF Lockstep, InsideBuffer
<1> HIDE DEF dtl
<1>1. CASE /\ dev.phase = "cbw" /\ ok' = TRUE /\ dev' = Accepted(dtl)
           /\ NoFault /\ Proceed(DataOrStatus(total))
  <2>1. /\ pc' = (IF total < cmd.len THEN "data" ELSE "status")
        /\ UNCHANGED <<attempt, status, received, dres, faults, lost>>
    BY <1>1 DEF Proceed, DataOrStatus, NoFault
  <2>2. TypeOK'
    BY <1>1, <1>a, <1>e, <1>f, <2>1 DEF TypeOK
  <2>3. InsideBuffer'
    BY <1>a, <1>b, <1>c, <1>e, <2>1 DEF InsideBuffer
  <2>4. Places'
    BY <1>1, <1>a, <1>b, <1>d, <1>e, <1>f, <2>1, BoundsAssumption DEF Places, InsideBuffer
  <2>5. Lockstep'
    BY <1>1, <1>a, <1>b, <1>c, <1>e, <1>f, <1>g, <2>1 DEF Lockstep, InsideBuffer
  <2>6. OkWithoutStatus'
    BY <2>1 DEF OkWithoutStatus
  <2> QED BY <2>2, <2>3, <2>4, <2>5, <2>6 DEF IInv
<1>2. ASSUME ok' = FALSE, Continue,
             dev' \in {dev, Waiting, Accepted(dtl)},
             faults' \in 0 .. MaxFaults, lost' \subseteq Losses
      PROVE  IInv'
  <2>1. /\ pc' \in {"push", "idle"} /\ ~received'
    BY <1>2, <1>a, ContinueFacts
  <2>2. dev' \in Devices /\ dev'.next + dev'.left =< MaxLen
        /\ (dev'.phase = "data" => dev'.left > 0)
    BY <1>2, <1>a, <1>d, <1>f, WaitingFacts, BoundsAssumption DEF TypeOK, Places
  <2>3. TypeOK'
    BY <1>2, <1>a, <1>e, <2>1, <2>2, ContinueFacts DEF TypeOK
  <2>4. InsideBuffer'
    BY <1>a, <1>b, <1>c, <1>e, <2>1 DEF InsideBuffer
  <2>5. Places'
    BY <2>1, <2>2 DEF Places
  <2>6. Lockstep'
    BY <1>a, <1>e, <1>g, <2>1 DEF Lockstep
  <2>7. OkWithoutStatus'
    BY <1>2 DEF OkWithoutStatus
  <2> QED BY <2>3, <2>4, <2>5, <2>6, <2>7 DEF IInv
<1>3. faults \in 0 .. MaxFaults /\ lost \subseteq Losses
  BY <1>a DEF TypeOK
<1>4. ASSUME NEW how \in Losses, Fault(how)
      PROVE  faults' \in 0 .. MaxFaults /\ lost' \subseteq Losses
  BY <1>3, <1>4, BoundsAssumption DEF Fault
<1> QED
  BY <1>1, <1>2, <1>3, <1>4 DEF PushCommand, dtl, NoFault, Losses

LEMMA TransferStep ==
    ASSUME IInv, TransferChunk
    PROVE  IInv'
<1>a. /\ TypeOK /\ InsideBuffer /\ Places /\ Lockstep
      /\ pc = "data" /\ total < cmd.len /\ ok /\ ~received
      /\ UNCHANGED <<ok, cmd, calls>>
  BY DEF IInv, TransferChunk, InsideBuffer, Places
<1>b. /\ cmd \in Commands /\ cmd.dtl \in Nat /\ cmd.len \in 0 .. MaxLen /\ total \in Nat
      /\ dev \in Devices /\ dev.next \in 0 .. MaxLen /\ dev.left \in 0 .. MaxLen
      /\ image \in [0 .. MaxLen - 1 -> 0 .. MaxLen]
  BY <1>a, BoundsAssumption DEF TypeOK, Commands, Devices
<1>1. CASE /\ dev.phase = "data" /\ dev' = Moved
           /\ image' = [image EXCEPT ![IF cmd.dir = "in" THEN total ELSE dev.next] =
                                     IF cmd.dir = "in" THEN dev.next ELSE total]
           /\ total' = total + 1
           /\ NoFault /\ Proceed(DataOrStatus(total + 1))
  <2>1. /\ pc' = (IF total + 1 < cmd.len THEN "data" ELSE "status")
        /\ UNCHANGED <<attempt, status, received, dres, faults, lost>>
    BY <1>1 DEF Proceed, DataOrStatus, NoFault
  <2>2. /\ Moved \in Devices /\ Moved.next = dev.next + 1 /\ Moved.left = dev.left - 1
        /\ Moved.phase = (IF dev.left = 1 THEN "csw" ELSE "data")
        /\ Moved.next + Moved.left =< MaxLen
    BY <1>1, <1>a, MovedFacts
  <2>3. image' \in [0 .. MaxLen - 1 -> 0 .. MaxLen] /\ total' \in 0 .. MaxLen
    <3>1. total \in 0 .. MaxLen - 1 /\ total + 1 \in 0 .. MaxLen
      BY <1>a, <1>b, BoundsAssumption
    <3>2. CASE cmd.dir = "in"
      BY <1>1, <1>b, <3>1, <3>2
    <3>3. CASE cmd.dir # "in"
      <4>1. image' = [image EXCEPT ![dev.next] = total]
        BY <1>1, <3>3
      <4>2. image' \in [0 .. MaxLen - 1 -> 0 .. MaxLen]
        <5>1. dev.next \in 0 .. MaxLen - 1 /\ total \in 0 .. MaxLen
          BY <1>1, <1>a, <1>b, <3>1, BoundsAssumption DEF Places
        <5> QED BY <1>b, <4>1, <5>1
      <4> QED BY <1>1, <3>1, <4>2
    <3> QED BY <1>1, <3>1, <3>2, <3>3
  <2>4. TypeOK'
    BY <1>1, <1>a, <2>1, <2>2, <2>3 DEF TypeOK
  <2>5. InsideBuffer'
    BY <1>1, <1>a, <1>b, <2>1 DEF InsideBuffer
  <2>6. Places'
    BY <1>1, <1>a, <1>b, <2>1, <2>2, BoundsAssumption DEF Places
  <2>7. Lockstep'
    <3> SUFFICES ASSUME cmd.dtl = cmd.len
                 PROVE  /\ \A j \in 0 .. total : image'[j] = j
                        /\ pc' = "data" => /\ dev'.phase = "data"
                                           /\ dev'.next = total + 1
                                           /\ dev'.left = cmd.len - (total + 1)
      BY <1>1, <1>a, <1>b DEF Lockstep
    <3>1. /\ \A j \in 0 .. total - 1 : image[j] = j
          /\ dev.next = total /\ dev.left = cmd.len - total
      BY <1>a DEF Lockstep
    <3>2. image' = [image EXCEPT ![total] = total]
      BY <1>1, <3>1
    <3>3. \A j \in 0 .. total : image'[j] = j
      <4>1. total \in 0 .. MaxLen - 1
        BY <1>a, <1>b, BoundsAssumption
      <4>2. image'[total] = total
        BY <1>b, <3>2, <4>1
      <4>3. ASSUME NEW j \in 0 .. total - 1 PROVE image'[j] = j
        BY <1>b, <3>1, <3>2, <4>1, <4>3
      <4> QED BY <1>b, <4>2, <4>3
    <3> QED BY <1>1, <1>a, <1>b, <2>1, <2>2, <3>1, <3>3
  <2>8. OkWithoutStatus'
    BY <2>1 DEF OkWithoutStatus
  <2> QED BY <2>4, <2>5, <2>6, <2>7, <2>8 DEF IInv
<1>2. ASSUME Continue, dev' \in Devices, dev'.next + dev'.left =< MaxLen,
             dev'.phase = "data" => dev'.left > 0,
             faults' \in 0 .. MaxFaults, lost' \subseteq Losses, UNCHANGED <<total, image>>
      PROVE  IInv'
  <2>1. pc' \in {"push", "idle"} /\ ~received'
    BY <1>2, <1>a, ContinueFacts
  <2>2. TypeOK'
    BY <1>2, <1>a, <2>1, ContinueFacts DEF TypeOK
  <2>3. InsideBuffer' /\ Places' /\ Lockstep' /\ OkWithoutStatus'
    BY <1>2, <1>a, <2>1 DEF InsideBuffer, Places, Lockstep, OkWithoutStatus
  <2> QED BY <2>2, <2>3 DEF IInv
<1>3. CASE /\ dev.phase = "data" /\ Fault("data") /\ dev' \in {dev, Moved}
           /\ UNCHANGED <<total, image>> /\ BreakOff
  <2>1. dev' \in Devices /\ dev'.next + dev'.left =< MaxLen
        /\ (dev'.phase = "data" => dev'.left > 0)
    BY <1>3, <1>a, <1>b, MovedFacts, BoundsAssumption DEF Places
  <2>2. faults' \in 0 .. MaxFaults /\ lost' \subseteq Losses
    BY <1>3, <1>a, BoundsAssumption DEF Fault, TypeOK, Losses
  <2> QED BY <1>2, <1>3, <2>1, <2>2 DEF BreakOff
<1>4. CASE /\ dev.phase = "csw" /\ dev' = (IF cmd.dir = "in" THEN Waiting ELSE dev)
           /\ NoFault /\ UNCHANGED <<total, image>> /\ BreakOff
  <2>1. dev' \in Devices /\ dev'.next + dev'.left =< MaxLen
        /\ (dev'.phase = "data" => dev'.left > 0)
    BY <1>4, <1>a, <1>b, WaitingFacts DEF Places
  <2>2. faults' \in 0 .. MaxFaults /\ lost' \subseteq Losses
    BY <1>4, <1>a DEF NoFault, TypeOK
  <2> QED BY <1>2, <1>4, <2>1, <2>2 DEF BreakOff
<1> QED BY <1>1, <1>3, <1>4 DEF TransferChunk

LEMMA StatusStep ==
    ASSUME IInv, ReadStatus
    PROVE  IInv'
<1>a. /\ TypeOK /\ InsideBuffer /\ Places /\ Lockstep
      /\ pc = "status" /\ total = cmd.len /\ ok /\ ~received
      /\ UNCHANGED <<cmd, total, image, calls>>
  BY DEF IInv, ReadStatus, Places
<1>b. dev' \in {dev, Waiting}
  BY DEF ReadStatus
<1>c. /\ dev' \in Devices /\ dev'.next + dev'.left =< MaxLen
      /\ dev'.phase = "data" => dev'.left > 0
  BY <1>a, <1>b, WaitingFacts DEF TypeOK, Places
<1>1. ASSUME NEW s \in Statuses, Finish(s, TRUE), dev' = Waiting, NoFault, UNCHANGED ok
      PROVE  IInv'
  <2>1. TypeOK'
    BY <1>1, <1>a, <1>c DEF TypeOK, Finish, NoFault
  <2>2. InsideBuffer' /\ Places' /\ Lockstep' /\ OkWithoutStatus'
    BY <1>1, <1>a, <1>c, WaitingFacts
    DEF Finish, InsideBuffer, Places, Lockstep, OkWithoutStatus
  <2> QED BY <2>1, <2>2 DEF IInv
<1>2. ASSUME ok' = FALSE, Continue, faults' \in 0 .. MaxFaults, lost' \subseteq Losses
      PROVE  IInv'
  <2>1. pc' \in {"push", "idle"} /\ ~received'
    BY <1>2, <1>a, ContinueFacts
  <2>2. TypeOK'
    BY <1>2, <1>a, <1>c, <2>1, ContinueFacts DEF TypeOK
  <2>3. InsideBuffer' /\ Places' /\ Lockstep' /\ OkWithoutStatus'
    BY <1>2, <1>a, <1>c, <2>1 DEF InsideBuffer, Places, Lockstep, OkWithoutStatus
  <2> QED BY <2>2, <2>3 DEF IInv
<1>3. NoFault => faults' \in 0 .. MaxFaults /\ lost' \subseteq Losses
  BY <1>a DEF NoFault, TypeOK
<1>4. Fault("status") => faults' \in 0 .. MaxFaults /\ lost' \subseteq Losses
  BY <1>a, BoundsAssumption DEF Fault, TypeOK, Losses
<1> QED
  BY <1>1, <1>2, <1>3, <1>4 DEF ReadStatus, StatusLost, StatusInvalid

-----------------------------------------------------------------------------
\* The invariant every other theorem is drawn from.
THEOREM Invariance == Spec => []IInv
<1>1. IInv /\ [Next]_vars => IInv'
  <2> SUFFICES ASSUME IInv, [Next]_vars PROVE IInv'
    OBVIOUS
  <2>1. CASE PushCommand BY <2>1, PushStep
  <2>2. CASE TransferChunk BY <2>2, TransferStep
  <2>3. CASE ReadStatus BY <2>3, StatusStep
  <2>4. ASSUME NEW dir \in {"in", "out"}, NEW len \in 0 .. MaxLen, Call(dir, len)
        PROVE  IInv'
    BY <2>4, CallStep
  <2>5. CASE UNCHANGED vars
    BY <2>5 DEF vars, host, IInv, TypeOK, InsideBuffer, Places, Lockstep, OkWithoutStatus
  <2> QED BY <2>1, <2>2, <2>3, <2>4, <2>5 DEF Next, Step
<1> QED BY InitIInv, <1>1, PTL DEF Spec

\* Every variable stays in its set, for every bound.
THEOREM TypeCorrect == Spec => []TypeOK
BY Invariance, PTL DEF IInv

\* The data loop never leaves the caller's buffer, whatever the retries do.
THEOREM BufferSafe == Spec => []InsideBuffer
BY Invariance, PTL DEF IInv

\* A received status of a command that was never resumed means a whole image.
THEOREM ExactTransfers == Spec => []ExactUnlessResumed
<1>1. IInv => ExactUnlessResumed
  BY DEF IInv, TypeOK, Commands, Places, Lockstep, ExactUnlessResumed, Exact
<1> QED BY Invariance, <1>1, PTL

\* After a received status the device waits for a command; only a command lost in
\* its data phase ends without a status and with the device ok.
THEOREM DeviceLeftInStep == Spec => []EndsInStep
<1>1. IInv => EndsInStep
  BY DEF IInv, Places, InSync, EndsInStep
<1> QED BY Invariance, <1>1, PTL

-----------------------------------------------------------------------------
\* Every attempt that ends without a status is a stutter or gives up.
LEMMA ContinueRefines ==
    ASSUME IInv, Continue, pc # "idle", ~received, ok' \in BOOLEAN
    PROVE  Command!GiveUp \/ UNCHANGED <<pc # "idle" \/ ok, pc # "idle", status, received>>
<1>1. CASE attempt + 1 < Retries /\ pc' = "push" /\ UNCHANGED <<status, received, dres>>
  BY <1>1
<1>2. CASE Finish("failed", FALSE)
  BY <1>2 DEF Finish, Command!GiveUp, IInv, TypeOK
<1> QED BY <1>1, <1>2 DEF Continue

\* TransferCommand, with all its retries, behaves as ScsiCommand says: one
\* answer per command, and no traffic with a device that is not ok.
THEOREM ImplementsCommand == Spec => CommandSpec
<1>1. Init => Command!Init
  BY DEF Init, Command!Init
<1>2. IInv /\ [Next]_vars =>
        [Command!Next]_<<pc # "idle" \/ ok, pc # "idle", status, received>>
  <2> SUFFICES ASSUME IInv, [Next]_vars
               PROVE  \/ Command!Next
                      \/ UNCHANGED <<pc # "idle" \/ ok, pc # "idle", status, received>>
    OBVIOUS
  <2>a. ok \in BOOLEAN /\ (received => pc = "idle") /\ (pc \in {"data", "status"} => ok)
    BY DEF IInv, TypeOK, Places
  <2>1. CASE PushCommand
    <3>1. CASE Continue /\ ok' = FALSE
      BY <2>1, <2>a, <3>1, ContinueRefines DEF PushCommand, Command!Next
    <3>2. CASE Proceed(DataOrStatus(total))
      BY <2>1, <3>2 DEF PushCommand, Proceed, DataOrStatus
    <3> QED BY <2>1, <3>1, <3>2 DEF PushCommand
  <2>2. CASE TransferChunk
    <3>1. CASE Continue
      BY <2>2, <2>a, <3>1, ContinueRefines DEF TransferChunk, Command!Next
    <3>2. CASE Proceed(DataOrStatus(total + 1))
      BY <2>2, <3>2 DEF TransferChunk, Proceed, DataOrStatus
    <3> QED BY <2>2, <3>1, <3>2 DEF TransferChunk, BreakOff
  <2>3. CASE ReadStatus
    <3>1. CASE Continue /\ ok' = FALSE
      BY <2>3, <2>a, <3>1, ContinueRefines DEF ReadStatus, Command!Next
    <3>2. ASSUME NEW s \in Statuses, Finish(s, TRUE), UNCHANGED ok
          PROVE  Command!Next
      BY <2>3, <2>a, <3>2 DEF ReadStatus, Finish, Statuses, Command!Next, Command!Answer
    <3> QED BY <2>3, <3>1, <3>2 DEF ReadStatus, StatusLost, StatusInvalid
  <2>4. ASSUME NEW dir \in {"in", "out"}, NEW len \in 0 .. MaxLen, Call(dir, len)
        PROVE  Command!Next
    BY <2>4, <2>a DEF Call, Refuse, Begin, Command!Next, Command!Start, Command!Refuse
  <2>5. CASE UNCHANGED vars
    BY <2>5 DEF vars, host
  <2> QED BY <2>1, <2>2, <2>3, <2>4, <2>5 DEF Next, Step
<1> QED BY Invariance, <1>1, <1>2, PTL DEF Spec, CommandSpec, Command!Spec
-----------------------------------------------------------------------------
\* As long as posts were lost before they reached the device only, every failed
\* attempt has cost a failure, nothing was moved before the last wrapper, and
\* host and device are in the same phase.
Steady ==
    lost \subseteq {"unheard"} =>
        /\ pc # "idle" => attempt =< faults /\ cmd.dtl = cmd.len
        /\ pc = "push" => total = 0 /\ dev.phase = "cbw"
        /\ pc = "data" => dev.phase = "data"
        /\ pc = "status" => dev.phase = "csw"

\* An attempt given up after a post that did not reach the device.
LEMMA ContinueSteady ==
    ASSUME IInv, Steady, pc = "push", Continue, Fault("unheard"), UNCHANGED <<total, dev>>,
           cmd'.dtl = cmd.dtl, cmd'.len = cmd.len
    PROVE  Steady' /\ RetriesRecover'
<1>1. /\ attempt \in Nat /\ faults \in Nat /\ faults' = faults + 1
      /\ lost' \subseteq {"unheard"} => lost \subseteq {"unheard"}
  BY BoundsAssumption DEF IInv, TypeOK, Fault, Retries
<1>2. CASE attempt + 1 < Retries /\ attempt' = attempt + 1 /\ pc' = "push"
  BY <1>1, <1>2 DEF Steady, RetriesRecover, Retries
<1>3. CASE attempt + 1 = Retries /\ Finish("failed", FALSE)
  BY <1>1, <1>3 DEF Steady, RetriesRecover, Finish, Retries
<1> QED BY <1>2, <1>3 DEF Continue

LEMMA PushSteady ==
    ASSUME IInv, Steady, PushCommand
    PROVE  Steady' /\ RetriesRecover'
<1>a. /\ pc = "push" /\ UNCHANGED total /\ cmd \in Commands /\ cmd.dtl \in 0 .. MaxLen
      /\ cmd' = [cmd EXCEPT !.dtl = Shrunk(cmd.dtl, total)]
      /\ lost \subseteq lost'
  BY DEF PushCommand, IInv, TypeOK, Commands, Fault, NoFault
<1>b. CASE ~(lost' \subseteq {"unheard"})
  BY <1>b DEF Steady, RetriesRecover
<1>c. CASE lost' \subseteq {"unheard"}
  <2>1. /\ total = 0 /\ dev.phase = "cbw" /\ cmd.dtl = cmd.len /\ attempt =< faults
    BY <1>a, <1>c DEF Steady
  <2>2. cmd'.dtl = cmd.dtl /\ cmd'.len = cmd.len /\ Shrunk(cmd.dtl, total) = cmd.dtl
    BY <1>a, <2>1 DEF Commands, Shrunk
  <2>3. CASE dev' = Accepted(cmd.dtl) /\ NoFault /\ Proceed(DataOrStatus(total))
    <3>1. /\ pc' = (IF 0 < cmd.len THEN "data" ELSE "status")
          /\ UNCHANGED <<attempt, faults>>
          /\ dev'.phase = (IF cmd.len = 0 THEN "csw" ELSE "data")
      BY <2>1, <2>3 DEF Proceed, DataOrStatus, NoFault, Accepted
    <3> QED BY <1>a, <2>1, <2>2, <3>1 DEF Steady, RetriesRecover
  <2>4. CASE Continue /\ Fault("unheard") /\ UNCHANGED dev
    BY <1>a, <2>2, <2>4, ContinueSteady
  <2>5. CASE Fault("heard")
    BY <1>c, <2>5 DEF Fault
  <2> QED BY <2>1, <2>2, <2>3, <2>4, <2>5 DEF PushCommand
<1> QED BY <1>b, <1>c

LEMMA TransferSteady ==
    ASSUME IInv, Steady, TransferChunk
    PROVE  Steady' /\ RetriesRecover'
<1>a. /\ pc = "data" /\ UNCHANGED cmd /\ lost \subseteq lost' /\ total < cmd.len
      /\ total \in Nat /\ cmd.len \in Nat /\ dev \in Devices
  BY BoundsAssumption DEF TransferChunk, IInv, InsideBuffer, TypeOK, Commands, Fault, NoFault
<1>b. CASE ~(lost' \subseteq {"unheard"})
  BY <1>b DEF Steady, RetriesRecover
<1>c. CASE lost' \subseteq {"unheard"}
  <2>1. /\ dev.phase = "data" /\ cmd.dtl = cmd.len /\ attempt =< faults
        /\ dev.left = cmd.len - total
    BY <1>a, <1>c DEF Steady, IInv, Lockstep
  <2>2. /\ dev' = Moved /\ NoFault /\ Proceed(DataOrStatus(total + 1))
    BY <1>c, <2>1 DEF TransferChunk, Fault
  <2>3. /\ pc' = (IF total + 1 < cmd.len THEN "data" ELSE "status")
        /\ UNCHANGED <<attempt, faults>>
        /\ dev'.phase = (IF dev.left = 1 THEN "csw" ELSE "data")
    BY <1>a, <2>2 DEF Proceed, DataOrStatus, NoFault, Moved, Devices
  <2> QED BY <1>a, <2>1, <2>3 DEF Steady, RetriesRecover
<1> QED BY <1>b, <1>c

LEMMA StatusSteady ==
    ASSUME IInv, Steady, ReadStatus
    PROVE  Steady' /\ RetriesRecover'
<1>a. pc = "status" /\ lost \subseteq lost'
  BY DEF ReadStatus, Fault, NoFault
<1>b. CASE ~(lost' \subseteq {"unheard"})
  BY <1>b DEF Steady, RetriesRecover
<1>c. CASE lost' \subseteq {"unheard"}
  <2>1. dev.phase = "csw"
    BY <1>a, <1>c DEF Steady
  <2>2. PICK s \in Statuses : Finish(s, TRUE)
    <3>1. ~Fault("status")
      BY <1>c DEF Fault
    <3> QED BY <2>1, <3>1 DEF ReadStatus
  <2> QED BY <2>2 DEF Finish, Steady, RetriesRecover
<1> QED BY <1>b, <1>c

\* Fewer failures than attempts, none of which let the device get ahead of the
\* host: the command completes.
THEOREM RetriesSuffice == Spec => []RetriesRecover
<1>1. Init => Steady /\ RetriesRecover
  BY DEF Init, Steady, RetriesRecover
<1>2. IInv /\ Steady /\ RetriesRecover /\ [Next]_vars => Steady' /\ RetriesRecover'
  <2> SUFFICES ASSUME IInv, Steady, RetriesRecover, [Next]_vars
               PROVE  Steady' /\ RetriesRecover'
    OBVIOUS
  <2>1. CASE Step BY <2>1, PushSteady, TransferSteady, StatusSteady DEF Step
  <2>2. ASSUME NEW dir \in {"in", "out"}, NEW len \in 0 .. MaxLen, Call(dir, len)
        PROVE  Steady' /\ RetriesRecover'
    <3>1. CASE Refuse
      BY <2>2, <3>1 DEF Call, Refuse, Steady, RetriesRecover
    <3>2. CASE Begin(dir, len)
      BY <2>2, <3>2, BoundsAssumption DEF Call, Begin, Steady, RetriesRecover, IInv, TypeOK
    <3> QED BY <2>2, <3>1, <3>2 DEF Call
  <2>3. CASE UNCHANGED vars
    BY <2>3 DEF vars, host, Steady, RetriesRecover
  <2> QED BY <2>1, <2>2, <2>3 DEF Next
<1> QED BY Invariance, <1>1, <1>2, PTL DEF Spec
=============================================================================
