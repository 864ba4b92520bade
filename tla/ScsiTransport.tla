----------------------------- MODULE ScsiTransport -----------------------------
(***************************************************************************)
(* The bulk-only transport of impl/fspusb_scsi.cpp: PushCommand sends the  *)
(* command wrapper, TransferCommand moves the data in chunks and retries,  *)
(* ReadStatus reads the status wrapper; ReadSectors and WriteSectors, with *)
(* DoReadSectors and DoWriteSectors of Drive above them, tell FatFs how it *)
(* went.                                                                   *)
(*                                                                         *)
(* Data is counted in chunks (32 KiB, the last one shorter).  A command of *)
(* len chunks addresses chunks 0 .. len - 1 of the medium; image[j] is the *)
(* chunk that ended up at place j: of the caller's buffer for a read, of   *)
(* the medium for a write.  The device (external) follows the bulk-only    *)
(* protocol; any post may fail, before or after the device acted on it.    *)
(***************************************************************************)
EXTENDS Naturals

CONSTANTS
    MaxLen,      \* bound: the longest data phase, in chunks
    MaxCalls,    \* bound: commands of one behaviour
    MaxFaults    \* bound: posts that fail

Retries == 3     \* SCSI_TRANSFER_RETRIES
Statuses == {"success", "failed", "phase"}
Untouched == MaxLen

ASSUME BoundsAssumption == MaxLen \in Nat \ {0} /\ MaxCalls \in Nat /\ MaxFaults \in Nat

VARIABLES
    ok,          \* SCSIDevice::ok
    pc,          \* where TransferCommand is
    cmd,         \* the command: direction, length, data_transfer_length field
    attempt,     \* i, the retry counter
    total,       \* total_transferred
    status,      \* status.status as returned
    received,    \* received_status
    dres,        \* what disk_read or disk_write returned
    image,
    dev,         \* the device: phase, next chunk, chunks left
    lost,        \* history: how posts of this command failed
    calls, faults

host == <<ok, pc, cmd, attempt, total, status, received, dres, image>>
vars == <<host, dev, lost, calls, faults>>

Commands == [dir : {"in", "out"}, len : 0 .. MaxLen, dtl : 0 .. MaxLen]
Devices == [phase : {"cbw", "data", "csw"}, next : 0 .. MaxLen, left : 0 .. MaxLen]
Losses == {"desync", "unheard", "heard", "data", "status"}

Waiting == [phase |-> "cbw", next |-> 0, left |-> 0]
Blank == [j \in 0 .. MaxLen - 1 |-> Untouched]

Init ==
    /\ ok = TRUE
    /\ pc = "idle"
    /\ cmd = [dir |-> "in", len |-> 0, dtl |-> 0]
    /\ attempt = 0
    /\ total = 0
    /\ status = "none"
    /\ received = FALSE
    /\ dres = "none"
    /\ image = Blank
    /\ dev = Waiting
    /\ lost = {}
    /\ calls = 0
    /\ faults = 0

-----------------------------------------------------------------------------
\* The device.

\* A command wrapper accepted: dtl chunks follow, from the first one the
\* command addresses (the CDB is the same at every attempt), then the status.
Accepted(dtl) ==
    [phase |-> IF dtl = 0 THEN "csw" ELSE "data", next |-> 0, left |-> dtl]

Moved == [dev EXCEPT !.next = @ + 1, !.left = @ - 1,
                     !.phase = IF dev.left = 1 THEN "csw" ELSE "data"]

\* A post that fails, counted against the bound.
Fault(how) ==
    /\ faults < MaxFaults
    /\ faults' = faults + 1
    /\ lost' = lost \union {how}

NoFault == UNCHANGED <<faults, lost>>

-----------------------------------------------------------------------------
\* The end of TransferCommand, in ReadSectors or WriteSectors: the status is
\* dropped, the number of sectors returned is never 0, and FatFs sees RES_OK.
Finish(s, r) ==
    /\ pc' = "idle"
    /\ status' = s
    /\ received' = r
    /\ dres' = "RES_OK"   \* of TestUnitReady: only that it was sent
    /\ UNCHANGED attempt

\* Faulty forms: one attempt too few, and no counting at all.
ContinueTooFew ==
    \/ /\ attempt + 2 < Retries
       /\ attempt' = attempt + 1
       /\ pc' = "push"
       /\ UNCHANGED <<status, received, dres>>
    \/ attempt + 2 >= Retries /\ Finish("failed", FALSE)
ContinueForever == pc' = "push" /\ UNCHANGED <<attempt, status, received, dres>>

\* `continue`: the next attempt, or FAILED after the last one.
Continue ==
    \/ /\ attempt + 1 < Retries
       /\ attempt' = attempt + 1
       /\ pc' = "push"
       /\ UNCHANGED <<status, received, dres>>
    \/ /\ attempt + 1 = Retries
       /\ Finish("failed", FALSE)

Proceed(step) == pc' = step /\ UNCHANGED <<attempt, status, received, dres>>

\* Faulty form: `=<` in the loop condition.
DataOnceMore(n) == IF n =< cmd.len THEN "data" ELSE "status"

DataOrStatus(n) == IF n < cmd.len THEN "data" ELSE "status"

\* A data loop that broke off: `continue` if anything is missing.
BreakToStatus == Proceed("status")   \* faulty form: the test is gone
BreakOff == Continue

\* No status: the device is not ok until the next attempt, or for good.
StatusLost == ok' = FALSE /\ Continue

\* Something else in place of a status.
InvalidTaken == ok' = TRUE /\ Finish("failed", TRUE)   \* faulty form: it counts as one
StatusInvalid == ok' = FALSE /\ Continue

\* A call of ReadSectors or WriteSectors (len > 0), or TestUnitReady (len = 0).
\* A device that is not ok is not asked: 0 sectors, RES_PARERR.
RefuseSilently ==   \* faulty form: the status stays zero, which is success
    /\ ~ok
    /\ dres' = "RES_PARERR"
    /\ status' = "success"
    /\ received' = FALSE
    /\ UNCHANGED <<pc, cmd, attempt, total, image, lost>>
Refuse ==
    /\ ~ok
    /\ dres' = "RES_PARERR"
    /\ status' = "failed"
    /\ received' = FALSE
    /\ UNCHANGED <<pc, cmd, attempt, total, image, lost>>

Begin(dir, len) ==
    /\ ok
    /\ pc' = "push"
    /\ cmd' = [dir |-> dir, len |-> len, dtl |-> len]
    /\ attempt' = 0
    /\ total' = 0
    /\ status' = "none"
    /\ received' = FALSE
    /\ dres' = "none"
    /\ image' = Blank
    /\ lost' = IF dev.phase = "cbw" THEN {} ELSE {"desync"}

Call(dir, len) ==
    /\ pc = "idle"
    /\ calls < MaxCalls
    /\ calls' = calls + 1
    /\ Refuse \/ Begin(dir, len)
    /\ UNCHANGED <<ok, dev, faults>>

\* diff: what earlier attempts moved comes off the length field, if it is less.
Shrunk(dtl, diff) == IF diff > 0 /\ diff < dtl THEN dtl - diff ELSE dtl

\* PushCommand, at the head of an attempt.  A device that does not wait for a
\* command stalls; a reset follows only if the endpoint still reads as halted.
PushCommand ==
    LET dtl == Shrunk(cmd.dtl, total)
    IN  /\ pc = "push"
        /\ cmd' = [cmd EXCEPT !.dtl = dtl]
        /\ \/ /\ dev.phase = "cbw"
              /\ ok' = TRUE
              /\ dev' = Accepted(dtl)
              /\ NoFault
              /\ Proceed(DataOrStatus(total))
           \/ /\ dev.phase = "cbw"
              /\ ok' = FALSE
              /\ \/ Fault("unheard") /\ UNCHANGED dev
                 \/ Fault("heard") /\ dev' \in {Accepted(dtl), Waiting}
              /\ Continue
           \/ /\ dev.phase # "cbw"
              /\ ok' = FALSE
              /\ dev' \in {dev, Waiting}
              /\ NoFault
              /\ Continue
        /\ UNCHANGED <<total, image, calls>>

\* One turn of the data loop, in or out.  A failed or short post ends the
\* attempt; for a read it may have been the status, taken for data.  The loop's
\* test for a status that came early (13 bytes, and as many as were asked for)
\* has no action: no reply or rest of one has 13 bytes (18, 8, 32, or sectors).
TransferChunk ==
    /\ pc = "data"
    /\ \/ /\ dev.phase = "data"
          /\ dev' = Moved
          /\ image' = [image EXCEPT ![IF cmd.dir = "in" THEN total ELSE dev.next] =
                                     IF cmd.dir = "in" THEN dev.next ELSE total]
          /\ total' = total + 1
          /\ NoFault
          /\ Proceed(DataOrStatus(total + 1))
       \/ /\ dev.phase = "data"
          /\ Fault("data")
          /\ dev' \in {dev, Moved}
          /\ UNCHANGED <<total, image>>
          /\ BreakOff
       \/ /\ dev.phase = "csw"
          /\ dev' = IF cmd.dir = "in" THEN Waiting ELSE dev
          /\ NoFault
          /\ UNCHANGED <<total, image>>
          /\ BreakOff
    /\ UNCHANGED <<ok, cmd, calls>>

\* ReadStatus.  A phase error resets the device and leaves it ok; data read as
\* a status has no valid signature: reset, and not ok.
ReadStatus ==
    /\ pc = "status"
    /\ \/ /\ dev.phase = "csw"
          /\ dev' = Waiting
          /\ NoFault
          /\ \E s \in Statuses : Finish(s, TRUE)
          /\ UNCHANGED ok
       \/ /\ dev.phase = "csw"
          /\ Fault("status")
          /\ dev' \in {dev, Waiting}
          /\ StatusLost
       \/ /\ dev.phase # "csw"
          /\ dev' \in {dev, Waiting}
          /\ NoFault
          /\ StatusInvalid
    /\ UNCHANGED <<cmd, total, image, calls>>

Step == PushCommand \/ TransferChunk \/ ReadStatus

Next == Step \/ \E dir \in {"in", "out"}, len \in 0 .. MaxLen : Call(dir, len)

Spec == Init /\ [][Next]_vars

\* usbHsEpPostBuffer returns, and the thread that called is scheduled.
FairSpec == Spec /\ WF_vars(Step)
-----------------------------------------------------------------------------
\* The variables stay in their sets.
TypeOK ==
    /\ ok \in BOOLEAN
    /\ pc \in {"idle", "push", "data", "status"}
    /\ cmd \in Commands
    /\ attempt \in 0 .. Retries - 1
    /\ total \in 0 .. MaxLen
    /\ status \in Statuses \union {"none"}
    /\ received \in BOOLEAN
    /\ dres \in {"none", "RES_OK", "RES_PARERR"}
    /\ image \in [0 .. MaxLen - 1 -> 0 .. MaxLen]
    /\ dev \in Devices
    /\ lost \subseteq Losses
    /\ calls \in 0 .. MaxCalls
    /\ faults \in 0 .. MaxFaults

Exact == \A j \in 0 .. cmd.len - 1 : image[j] = j

\* The data loop stays inside the caller's buffer whatever the retries did to
\* the length field, and a wrapper never declares more than was asked for.
InsideBuffer == total =< cmd.len /\ cmd.dtl =< cmd.len /\ (pc = "data" => total < cmd.len)

\* A status that came from the device after a command whose length field no
\* retry has shrunk means that every chunk is in its place.
ExactUnlessResumed == received /\ cmd.dtl = cmd.len => Exact

\* Once a status was received, the device waits for the next command: nothing
\* of this one is left in the pipe.
InSync == pc = "idle" /\ received => dev.phase = "cbw"

\* The retries do their work for wrappers that never reached a device in step
\* with the host: with fewer failures than attempts the command completes.
RetriesRecover ==
    pc = "idle" /\ dres = "RES_OK" /\ lost \subseteq {"unheard"} /\ faults < Retries => received

\* A command that ends without a status and with the device still ok lost its
\* last attempt in the data phase; any other loss ends the device for good.
OkWithoutStatus ==
    pc = "idle" /\ ok /\ dres = "RES_OK" /\ ~received => total < cmd.len

\* What the end of a command says of the device: with a status it waits for the
\* next one; without, it has been given up, unless it was lost in the data phase.
EndsInStep == InSync /\ OkWithoutStatus

\* Every transfer returns: the attempts are counted and every chunk moves on.
Returns == pc # "idle" ~> pc = "idle"

\* The promise of TransferCommand to its callers.
Command == INSTANCE ScsiCommand
    WITH ok <- pc # "idle" \/ ok, busy <- pc # "idle"
CommandSpec == Command!Spec

\* RES_OK of disk_read and disk_write means that the transfer was successful.
OkMeansDone == dres = "RES_OK" /\ cmd.len > 0 => received /\ status = "success"
=============================================================================
