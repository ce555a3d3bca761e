----------------------------- MODULE GameDetails -----------------------------
(***************************************************************************)
(* The details screen of a console game of several files: which file Play  *)
(* and the flags are about, the two per-user flags it shows, the reads     *)
(* that tell them and the writes a press makes.  A read and a write are    *)
(* requests: served by the daemon at one moment, answered at a later one.  *)
(* A write is two calls, the flag at RomM and the membership of the        *)
(* collection the dashboard draws.  Each has a timeout at the launcher, so *)
(* a call that failed there may have been carried out, or may yet be.      *)
(*                                                                         *)
(* A screen that is closed is forgotten, and its requests still answer:    *)
(* the message carries the file and not the screen that asked.             *)
(***************************************************************************)
EXTENDS Integers, FiniteSets

CONSTANTS Files,        \* the files the game collapsed
          Flags,        \* favorite and play later
          MaxPresses,   \* flags pressed
          MaxReads      \* reads made

VARIABLES
    open,       \* the screen is up
    rom,        \* the file it is pointed at
    shown,      \* the state of each flag it shows, or Unknown
    pending,    \* pending_files: the files with a write in flight
    picker,     \* the disc picker is open
    reads,      \* the reads out
    writes,     \* the writes out
    stored,     \* the flags RomM holds
    member,     \* the memberships the dashboard's rails are built from
    late,       \* the calls the launcher gave up on that may yet be carried out
    presses, asked,
    torn,       \* history: a flag was written and its membership failed, or a call
                \* the launcher had given up on was carried out
    crossed     \* history: an answer was overtaken by a later write

screen == <<open, rom, shown, pending, picker>>
remote == <<stored, member, late, torn>>
vars == <<screen, reads, writes, remote, presses, asked, crossed>>

Unknown == "unknown"
Known == {"on", "off"}
Flipped(state) == IF state = "on" THEN "off" ELSE "on"
NoFlags == [f \in Flags |-> Unknown]

Init ==
    /\ open = FALSE
    /\ rom = CHOOSE r \in Files : TRUE
    /\ shown = NoFlags /\ pending = {} /\ picker = FALSE
    /\ reads = {} /\ writes = {}
    /\ stored \in [Files -> [Flags -> Known]]
    /\ member = stored
    /\ late = {}
    /\ presses = 0 /\ asked = 0
    /\ torn = FALSE /\ crossed = FALSE

-----------------------------------------------------------------------------
(***************************************************************************)
(* The screen.                                                             *)
(***************************************************************************)

\* A read of file r: numbered, so that two of one file are two.
Read(r) ==
    /\ asked < MaxReads /\ asked' = asked + 1
    /\ reads' = reads \cup {[id |-> asked, rom |-> r, got |-> NoFlags, served |-> FALSE]}

\* open_details: a new screen, seeded from a tile and read behind it.
OpenDetails(r) ==
    /\ ~open
    /\ open' = TRUE /\ rom' = r
    /\ shown' = NoFlags /\ pending' = {} /\ picker' = FALSE
    /\ Read(r)
    /\ UNCHANGED <<writes, remote, presses, crossed>>

CloseDetails ==
    /\ open
    /\ open' = FALSE
    /\ UNCHANGED <<rom, shown, pending, picker, reads, writes, remote, presses, asked, crossed>>

TogglePicker ==
    /\ open /\ Cardinality(Files) > 1
    /\ picker' = ~picker
    /\ UNCHANGED <<open, rom, shown, pending, reads, writes, remote, presses, asked, crossed>>

\* The picked file's flags are unknown until they are read.
SelectDisc(r) ==
    /\ open /\ picker
    /\ picker' = FALSE
    /\ rom' = r
    /\ shown' = IF r = rom THEN shown ELSE NoFlags
    /\ Read(r)
    /\ UNCHANGED <<open, pending, writes, remote, presses, crossed>>

\* A press shows the flag turned over and writes it.  A file with a write of
\* either flag in flight takes no press.
FlagPressed(f) ==
    /\ open /\ rom \notin pending
    /\ presses < MaxPresses /\ presses' = presses + 1
    /\ pending' = pending \cup {rom}
    /\ shown' = [shown EXCEPT ![f] = Flipped(@)]
    /\ writes' = writes \cup {[id |-> presses, rom |-> rom, flag |-> f, previous |-> shown[f],
                               value |-> Flipped(shown[f]), stage |-> "asked"]}
    /\ UNCHANGED <<open, rom, picker, reads, remote, asked, crossed>>

-----------------------------------------------------------------------------
(***************************************************************************)
(* The daemon and RomM.                                                    *)
(***************************************************************************)

\* A read takes the flags RomM holds when it is served.
ServeRead(q) ==
    /\ q \in reads /\ ~q.served
    /\ reads' = (reads \ {q}) \cup {[q EXCEPT !.got = stored[q.rom], !.served = TRUE]}
    /\ UNCHANGED <<screen, writes, remote, presses, asked, crossed>>

\* The first call of a write: the flag stored, or a failure, after which the call
\* is gone or still on its way.
WriteFlag(w) ==
    /\ w \in writes /\ w.stage = "asked"
    /\ \/ /\ stored' = [stored EXCEPT ![w.rom][w.flag] = w.value]
          /\ writes' = (writes \ {w}) \cup {[w EXCEPT !.stage = "stored"]}
          /\ UNCHANGED late
       \/ /\ writes' = (writes \ {w}) \cup {[w EXCEPT !.stage = "failed"]}
          /\ late' \in {late, late \cup {w}}
          /\ UNCHANGED stored
    /\ UNCHANGED <<screen, reads, member, torn, presses, asked, crossed>>

\* The second call: the membership, or its failure.
WriteMember(w) ==
    /\ w \in writes /\ w.stage = "stored"
    /\ \/ /\ member' = [member EXCEPT ![w.rom][w.flag] = w.value]
          /\ writes' = (writes \ {w}) \cup {[w EXCEPT !.stage = "done"]}
          /\ UNCHANGED <<late, torn>>
       \/ /\ writes' = (writes \ {w}) \cup {[w EXCEPT !.stage = "failed"]}
          /\ late' \in {late, late \cup {w}}
          /\ torn' = TRUE
          /\ UNCHANGED member
    /\ UNCHANGED <<screen, reads, stored, presses, asked, crossed>>

\* A call the launcher gave up on takes effect after all; nobody is told.
CarryOut(w) ==
    /\ w \in late
    /\ late' = late \ {w}
    /\ torn' = TRUE
    /\ \/ /\ w.stage = "asked"
          /\ stored' = [stored EXCEPT ![w.rom][w.flag] = w.value]
          /\ UNCHANGED member
       \/ /\ w.stage = "stored"
          /\ member' = [member EXCEPT ![w.rom][w.flag] = w.value]
          /\ UNCHANGED stored
    /\ UNCHANGED <<screen, reads, writes, presses, asked, crossed>>

-----------------------------------------------------------------------------
(***************************************************************************)
(* The answers.                                                            *)
(***************************************************************************)

\* Mutant: a read settles the flags whatever file it was of.
LoadedForAny(q) ==
    /\ q \in reads /\ q.served
    /\ reads' = reads \ {q}
    /\ shown' \in IF open THEN {q.got, shown} ELSE {shown}
    /\ crossed' = (crossed \/ q.got # stored[q.rom] \/ \E w \in writes : w.rom = q.rom)
    /\ UNCHANGED <<open, rom, pending, picker, writes, remote, presses, asked>>

\* Only the file on screen is settled, by whatever read of it comes in; a read
\* that fails leaves the flags as they are.
Loaded(q) ==
    /\ q \in reads /\ q.served
    /\ reads' = reads \ {q}
    /\ shown' \in IF open /\ q.rom = rom THEN {q.got, shown} ELSE {shown}
    /\ crossed' = (crossed \/ q.got # stored[q.rom] \/ \E w \in writes : w.rom = q.rom)
    /\ UNCHANGED <<open, rom, pending, picker, writes, remote, presses, asked>>

\* settle_flag: the answer becomes the shown state, a failure puts back the one
\* it replaced.  The screen that takes it need not be the one that asked.
FlagWritten(w) ==
    /\ w \in writes /\ w.stage \in {"done", "failed"}
    /\ writes' = writes \ {w}
    /\ pending' = pending \ {w.rom}
    /\ shown' = IF w.rom = rom
                THEN [shown EXCEPT ![w.flag] = IF w.stage = "done" THEN w.value ELSE w.previous]
                ELSE shown
    /\ crossed' = (crossed \/ \E v \in writes \ {w} : v.rom = w.rom)
    /\ UNCHANGED <<open, rom, picker, reads, remote, presses, asked>>

Next ==
    \/ \E r \in Files : OpenDetails(r)
    \/ CloseDetails
    \/ TogglePicker
    \/ \E r \in Files : SelectDisc(r)
    \/ \E f \in Flags : FlagPressed(f)
    \/ \E q \in reads : ServeRead(q)
    \/ \E w \in writes : WriteFlag(w)
    \/ \E w \in writes : WriteMember(w)
    \/ \E w \in late : CarryOut(w)
    \/ \E q \in reads : Loaded(q)
    \/ \E w \in writes : FlagWritten(w)

Spec == Init /\ [][Next]_vars

-----------------------------------------------------------------------------
(***************************************************************************)
(* What the screen promises.                                               *)
(***************************************************************************)

\* Every part of the state has its type.
TypeOK ==
    /\ rom \in Files
    /\ shown \in [Flags -> Known \cup {Unknown}]
    /\ pending \subseteq Files
    /\ {open, picker, torn, crossed} \subseteq BOOLEAN
    /\ {q.rom : q \in reads} \cup {w.rom : w \in writes \cup late} \subseteq Files
    /\ stored \in [Files -> [Flags -> Known]] /\ member \in [Files -> [Flags -> Known]]

\* A file that takes no press has a write out whose answer will free it, also
\* when the screen has moved to another file since: no button stays dead.
PendingIsAnswered == open => \A r \in pending : \E w \in writes : w.rom = r

\* Once its requests are answered the screen shows what RomM stored, for the
\* file it is pointed at.  Three things escape it: a write whose second call failed
\* after its first had stored the flag, a call that was carried out although the
\* launcher had given up on it and put the flag back, and an answer overtaken by a
\* later write.  The screen says nothing of any of them until the next read.
ShowsWhatIsStored ==
    open /\ ~torn /\ ~crossed /\ (\A w \in writes : w.rom # rom) =>
        \A f \in Flags : shown[f] \in {Unknown, stored[rom][f]}

\* The flag RomM holds and the membership the dashboard draws agree once the
\* writes are answered, but for the same three.
RailsMatchFlags ==
    ~torn /\ ~crossed /\ writes = {} => member = stored

\* A press on a flag leaves no dead button, whatever fails; and once the writes are
\* answered the screen, RomM and the dashboard's collections agree on it, unless the
\* second call of a write failed, one given up on was carried out after all, or an
\* answer was overtaken by a later write.
FlagsSettle == PendingIsAnswered /\ ShowsWhatIsStored /\ RailsMatchFlags
=============================================================================
