----------------------------- MODULE SavingsLedger -----------------------------
(***************************************************************************)
(* The ledger of savings (storage/savings_ledger.py), one file of lines    *)
(* that all processes append to, and its compaction.                       *)
(*                                                                         *)
(* The advisory locks are held for a single write or for a single read, on *)
(* the file that was opened: they make these steps atomic, and nothing     *)
(* more.  A compaction reads the ledger, writes what it keeps into         *)
(* ".tmp", and renames that over the ledger.                               *)
(***************************************************************************)
EXTENDS Naturals, Sequences, FiniteSets, SequencesExt

CONSTANTS
    Processes,   \* workers of the gateway, and other programs that record
    Files,       \* inodes
    NoFile,
    CompactSize, \* _COMPACT_SIZE_BYTES, in events: lines are of the same length
    Retention,   \* DEFAULT_RETENTION_DAYS, MAX_RETENTION_DAYS
    MaxEvents,   \* bound: events
    MaxNow,      \* bound: days
    MaxFaults    \* bound: crashes, failing reads and writes, resets

ASSUME LedgerAssumption ==
    /\ NoFile \notin Files
    /\ CompactSize \in Nat /\ Retention \in Nat \ {0}
    /\ MaxEvents \in Nat /\ MaxNow \in Nat /\ MaxFaults \in Nat

VARIABLES
    disk,     \* the lines in each file that are events
    torn,     \* files that end in a part of a line
    ledger,   \* the file at the ledger's path
    temp,     \* the file at the path of ".tmp"
    pc,       \* what each process is doing
    handle,   \* the file it has open
    kept,     \* the events its compaction keeps
    event,    \* the event it is recording
    day,      \* the day each event so far was made
    recorded, \* those of which the caller was told True
    risk,     \* those that a fault or a race may have cost or doubled
    now,
    faults

SLvars == <<disk, torn, ledger, temp, pc, handle, kept, event, day, recorded, risk, now, faults>>

Event == 1..MaxEvents

\* The variables have their types; a process has a file open just when it is going
\* to write, and the two paths never name one file.
SLTypeOK ==
    /\ disk \in [Files -> Seq(Event)] /\ torn \subseteq Files
    /\ ledger \in Files \cup {NoFile} /\ temp \in Files \cup {NoFile}
    /\ ledger = temp => ledger = NoFile
    /\ pc \in [Processes -> {"idle", "append", "check", "read", "open", "write", "replace"}]
    /\ handle \in [Processes -> Files \cup {NoFile}]
    /\ \A p \in Processes : handle[p] # NoFile <=> pc[p] \in {"append", "write"}
    /\ kept \in [Processes -> Seq(Event)]
    /\ event \in [Processes -> Event \cup {0}]
    /\ day \in Seq(0..MaxNow) /\ Len(day) <= MaxEvents
    /\ recorded \subseteq DOMAIN day /\ risk \subseteq DOMAIN day
    /\ now \in 0..MaxNow /\ faults \in 0..MaxFaults

-----------------------------------------------------------------------------
(* Files                                                                     *)

Used == {ledger, temp} \cup Range(handle)

\* Inodes that no path and no process has.
Fresh == Files \ Used

Content(f) == IF f = NoFile THEN <<>> ELSE disk[f]

\* What is written at the beginning of a file that holds something.
Over(new, old) == new \o SubSeq(old, Len(new) + 1, Len(old))

\* The event is not older than the days asked for.
Fits(e, days) == now <= day[e] + days

\* What is left of seq when the events are dropped that do not fit.
Fitting(seq, days) ==
    LET upTo[n \in 0..Len(seq)] ==
            IF n = 0 THEN <<>>
            ELSE IF Fits(seq[n], days) THEN Append(upTo[n - 1], seq[n]) ELSE upTo[n - 1]
    IN upTo[Len(seq)]

\* Those that have read the ledger, and will replace it.
Compacting == {p \in Processes : pc[p] \in {"open", "write", "replace"}}

\* A line is appended to the file.  After a part of a line it is a part of that one,
\* and no event.
Adds(file, e) ==
    /\ disk' = IF file \in torn THEN disk ELSE [disk EXCEPT ![file] = Append(@, e)]
    /\ torn' = torn \ {file}

\* The last write to the file was cut, inside a line or between two.
Cuts(file) == torn' \in {torn, torn \cup {file}}

Goes(p, to, file) ==
    /\ pc' = [pc EXCEPT ![p] = to]
    /\ handle' = [handle EXCEPT ![p] = file]

-----------------------------------------------------------------------------
(* Recording                                                                 *)

\* record_savings_event: something was saved, the ledger is opened to append.
Record(p) ==
    /\ pc[p] = "idle" /\ Len(day) < MaxEvents
    /\ day' = Append(day, now)
    /\ event' = [event EXCEPT ![p] = Len(day) + 1]
    /\ \E file \in IF ledger = NoFile THEN Fresh ELSE {ledger} :
          /\ ledger' = file
          /\ disk' = IF ledger = NoFile THEN [disk EXCEPT ![file] = <<>>] ELSE disk
          /\ torn' = IF ledger = NoFile THEN torn \ {file} ELSE torn
          /\ Goes(p, "append", file)
    /\ UNCHANGED <<temp, kept, recorded, risk, now, faults>>

\* The line is appended under the lock, to the file that was opened.
Write(p) ==
    /\ pc[p] = "append"
    /\ Adds(handle[p], event[p])
    /\ recorded' = recorded \cup {event[p]}
    /\ risk' = IF Compacting # {} \/ handle[p] # ledger \/ handle[p] \in torn
               THEN risk \cup {event[p]} ELSE risk
    /\ Goes(p, "check", NoFile)
    /\ UNCHANGED <<ledger, temp, kept, event, day, now, faults>>

Done(p) ==
    /\ Goes(p, "idle", NoFile)
    /\ event' = [event EXCEPT ![p] = 0]
    /\ kept' = [kept EXCEPT ![p] = <<>>]

\* Writing fails, and the caller is told False.  Nothing may be in the file, or a part
\* of the line; or all of it, when closing the file writes what was left.
WriteFails(p) ==
    /\ pc[p] = "append" /\ faults < MaxFaults
    /\ faults' = faults + 1
    /\ \/ Cuts(handle[p]) /\ disk' = disk
       \/ Adds(handle[p], event[p])
    /\ Done(p)
    /\ UNCHANGED <<ledger, temp, day, recorded, risk, now>>

-----------------------------------------------------------------------------
(* Compaction                                                                *)

\* _maybe_compact: nothing is done about a file that is small.
Check(p) ==
    /\ pc[p] = "check"
    /\ IF Len(Content(ledger)) < CompactSize
       THEN Done(p)
       ELSE Goes(p, "read", NoFile) /\ UNCHANGED <<event, kept>>
    /\ UNCHANGED <<disk, torn, ledger, temp, day, recorded, risk, now, faults>>

\* A mutation of Read: the last day of the retention is dropped.
ReadTight(p) ==
    /\ pc[p] = "read"
    /\ kept' = [kept EXCEPT ![p] = Fitting(Content(ledger), Retention - 1)]
    /\ Goes(p, "open", NoFile)
    /\ UNCHANGED <<disk, torn, ledger, temp, event, day, recorded, risk, now, faults>>

\* _read_events, under a shared lock.
Read(p) ==
    /\ pc[p] = "read"
    /\ kept' = [kept EXCEPT ![p] = Fitting(Content(ledger), Retention)]
    /\ Goes(p, "open", NoFile)
    /\ UNCHANGED <<disk, torn, ledger, temp, event, day, recorded, risk, now, faults>>

\* A line that is no object, or the system, makes reading fail: there are no events.
ReadFails(p) ==
    /\ pc[p] = "read" /\ faults < MaxFaults
    /\ faults' = faults + 1
    /\ kept' = [kept EXCEPT ![p] = <<>>]
    /\ risk' = DOMAIN day
    /\ Goes(p, "open", NoFile)
    /\ UNCHANGED <<disk, torn, ledger, temp, event, day, recorded, now>>

\* ".tmp" is opened, and emptied, before it is locked; another may be using it.
OpenTemp(p) ==
    /\ pc[p] = "open"
    /\ \E file \in IF temp = NoFile THEN Fresh ELSE {temp} :
          /\ temp' = file
          /\ disk' = [disk EXCEPT ![file] = <<>>]
          /\ torn' = torn \ {file}
          /\ Goes(p, "write", file)
    /\ risk' = IF \E q \in Processes : pc[q] \in {"write", "replace"} THEN DOMAIN day ELSE risk
    /\ UNCHANGED <<ledger, kept, event, day, recorded, now, faults>>

\* The kept events are written from the beginning of the file that was opened.
WriteTemp(p) ==
    /\ pc[p] = "write"
    /\ disk' = [disk EXCEPT ![handle[p]] = Over(kept[p], @)]
    /\ torn' = IF Len(kept[p]) > Len(disk[handle[p]]) THEN torn \ {handle[p]} ELSE torn
    /\ Goes(p, "replace", NoFile)
    /\ UNCHANGED <<ledger, temp, kept, event, day, recorded, risk, now, faults>>

\* A mutation of Replace: the file is linked to the ledger's path, not renamed.
ReplaceLinked(p) ==
    /\ pc[p] = "replace"
    /\ ledger' = IF temp = NoFile THEN ledger ELSE temp
    /\ Done(p)
    /\ UNCHANGED <<disk, torn, temp, day, recorded, risk, now, faults>>

\* Whatever is at the path of ".tmp" is renamed; nothing is, and nobody is told.
Replace(p) ==
    /\ pc[p] = "replace"
    /\ ledger' = IF temp = NoFile THEN ledger ELSE temp
    /\ temp' = NoFile
    /\ Done(p)
    /\ UNCHANGED <<disk, torn, day, recorded, risk, now, faults>>

-----------------------------------------------------------------------------
(* The surroundings                                                          *)

\* A process is killed; of what it was writing any part is in the file.
Crash(p) ==
    /\ pc[p] # "idle" /\ faults < MaxFaults
    /\ faults' = faults + 1
    /\ IF pc[p] = "write"
       THEN \E n \in 0..Len(kept[p]) :
                disk' = [disk EXCEPT ![handle[p]] = Over(SubSeq(kept[p], 1, n), @)]
       ELSE disk' = disk
    /\ IF handle[p] # NoFile THEN Cuts(handle[p]) ELSE torn' = torn
    /\ Done(p)
    /\ UNCHANGED <<ledger, temp, day, recorded, risk, now>>

\* ctxguard savings --reset.
Reset ==
    /\ ledger # NoFile /\ faults < MaxFaults
    /\ faults' = faults + 1
    /\ ledger' = NoFile
    /\ risk' = DOMAIN day
    /\ UNCHANGED <<disk, torn, temp, pc, handle, kept, event, day, recorded, now>>

Tick ==
    /\ now < MaxNow
    /\ now' = now + 1
    /\ UNCHANGED <<disk, torn, ledger, temp, pc, handle, kept, event, day, recorded, risk, faults>>

SLInit ==
    /\ disk = [f \in Files |-> <<>>] /\ torn = {}
    /\ ledger = NoFile /\ temp = NoFile
    /\ pc = [p \in Processes |-> "idle"]
    /\ handle = [p \in Processes |-> NoFile]
    /\ kept = [p \in Processes |-> <<>>]
    /\ event = [p \in Processes |-> 0]
    /\ day = <<>>
    /\ recorded = {} /\ risk = {}
    /\ now = 0 /\ faults = 0

SLNext ==
    \/ \E p \in Processes : \/ Record(p) \/ Write(p) \/ WriteFails(p)
                            \/ Check(p) \/ Read(p) \/ ReadFails(p)
                            \/ OpenTemp(p) \/ WriteTemp(p) \/ Replace(p) \/ Crash(p)
    \/ Reset \/ Tick

SLSpec == SLInit /\ [][SLNext]_SLvars
-----------------------------------------------------------------------------
(* Reports and properties                                                    *)

\* aggregate_savings: the days that a report is about.
Days(asked) == IF asked = 0 \/ asked > Retention THEN Retention ELSE asked

\* What it adds up.
Reported(asked) == Fitting(Content(ledger), Days(asked))

Times(e, seq) == Cardinality({i \in DOMAIN seq : seq[i] = e})

\* What a report owes: an event that was recorded is counted once, and not at all
\* when it is older than what was asked for.
CountedOnce(e, asked) ==
    Times(e, Reported(asked)) = IF now <= day[e] + asked THEN 1 ELSE 0

\* An event that was recorded while no compaction was between its reading and its
\* renaming is counted once by every report that asks for its day, whatever else
\* the processes do, and wherever one of them is killed; unless it was appended to
\* the part of a line that a failed write had left, two compactions shared ".tmp",
\* one could not read the ledger, or it was reset.
ReportsTrue ==
    \A e \in recorded \ risk : \A asked \in 1..Retention : CountedOnce(e, asked)
=============================================================================
