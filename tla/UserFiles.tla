------------------------------ MODULE UserFiles ------------------------------
(* What the scout processes of one user share in ~/.scout-audit: the          *)
(* identifier of the telemetry (telemetry.rs) and the latest version that is  *)
(* known (version_checker.rs), both written in place.                         *)
EXTENDS Integers

CONSTANTS Runs,         \* the scout processes
          DoNotTrack,   \* what the user writes to opt out
          Day,          \* how long a known version is relied on
          MaxTime, MaxBack, MaxReleases \* bounds: the time, how far the clock is set
                                        \* back, and the versions released

ASSUME TimeAssumption == Day \in Nat \ {0} /\ MaxTime \in Nat /\ MaxBack \in Nat

ASSUME DoNotTrackAssumption == DoNotTrack \notin Runs \cup {"absent", "empty", "blank", "comment"}

VARIABLES allowed,      \* what else may happen in the meantime
          phase,        \* function: run -> the step it is at
          user_id,      \* the file with the identifier: see IdFile
          id,           \* function: run -> the identifier that it goes by
          sent,         \* the reports that were sent: pairs of a run and an identifier
          opted_out,    \* the user opted out
          before, asking, \* the runs that had read the file, or were asking for an
                        \* identifier, when the user opted out
          now, back,    \* the time, and how far the clock is behind it
          releases,     \* when each version came out: the last one is the latest
          version,      \* the file with the version known: see NoVersion
          got,          \* function: run -> the version it asked for, and when it was told
          relied,       \* versions that runs took for the latest, and when
          turned_back, held \* the clock was set back; a run was held up between being told
                        \* of a version and writing it down

identity == <<user_id, id, sent, opted_out, before, asking>>
world == <<now, back, releases, turned_back>>
known == <<version, got, relied, held>>
userfiles == <<allowed, identity, world, known>>

\* A file that is not there, that was emptied, that ends after some of its comments (the
\* disk was full), that ends with a blank line (it was edited), or with an identifier.
\* The server knows runs apart.
IdFile == {"absent", "empty", "blank", "comment", "old", DoNotTrack} \cup Runs

\* No file, one that cannot be read as JSON, or a version, the clock's time then, and
\* the time when it was told.
NoVersion == [of |-> 0, at |-> 0, told |-> 0]
Broken == [of |-> 0, at |-> 1, told |-> 0]

Latest == CHOOSE v \in DOMAIN releases : \A w \in DOMAIN releases : w <= v

Clock == now - back

StandsAt(r, step) == phase[r] = step

MoveOn(r, step) == phase' = [phase EXCEPT ![r] = step]

May(what) == what \in allowed

-----------------------------------------------------------------------------
(* telemetry.rs                                                              *)

\* The last line of the file, whatever it says, unless it is blank; an emptied file
\* has none.
HasLine(file) == file \notin {"absent", "empty", "blank"}

ReadId(r) ==
  /\ StandsAt(r, "identity")
  /\ IF HasLine(user_id) THEN id' = [id EXCEPT ![r] = user_id] /\ MoveOn(r, "send")
                         ELSE MoveOn(r, "ask") /\ UNCHANGED id
  /\ UNCHANGED <<allowed, user_id, sent, opted_out, before, asking, world, known>>

\* Without an answer nothing is sent, and nothing is written.
AskId(r) ==
  /\ StandsAt(r, "ask")
  /\ \/ id' = [id EXCEPT ![r] = r] /\ MoveOn(r, "create")
     \/ id' = [id EXCEPT ![r] = DoNotTrack] /\ MoveOn(r, "send")
  /\ UNCHANGED <<allowed, user_id, sent, opted_out, before, asking, world, known>>

\* fs::write empties what is there by now, and writes afterwards.
CreateId(r) ==
  /\ StandsAt(r, "create")
  /\ \/ user_id' = "empty" /\ MoveOn(r, "fill")
     \/ May("disk") /\ MoveOn(r, "send") /\ UNCHANGED user_id
  /\ UNCHANGED <<allowed, id, sent, opted_out, before, asking, world, known>>

\* An error is logged: the identifier is used all the same.
FillId(r) ==
  /\ StandsAt(r, "fill")
  /\ user_id' \in {id[r]} \cup IF May("disk") THEN {"empty", "comment"} ELSE {}
  /\ MoveOn(r, "send")
  /\ UNCHANGED <<allowed, id, sent, opted_out, before, asking, world, known>>

\* As if only an empty identifier were looked for.
SendAnyway(r) ==
  /\ StandsAt(r, "send")
  /\ sent' = sent \cup {<<r, id[r]>>}
  /\ MoveOn(r, "version")
  /\ UNCHANGED <<allowed, user_id, id, opted_out, before, asking, world, known>>

SendReport(r) ==
  /\ StandsAt(r, "send")
  /\ sent' = IF id[r] = DoNotTrack THEN sent ELSE sent \cup {<<r, id[r]>>}
  /\ MoveOn(r, "version")
  /\ UNCHANGED <<allowed, user_id, id, opted_out, before, asking, world, known>>

\* The user replaces the identifier in the file, as the file says.
OptOut ==
  /\ May("opt_out") /\ user_id \in Runs \cup {"old"}
  /\ user_id' = DoNotTrack /\ opted_out' = TRUE
  /\ before' = {r \in Runs : ~StandsAt(r, "identity")}
  /\ asking' = {r \in Runs : phase[r] \in {"ask", "create", "fill"}}
  /\ UNCHANGED <<allowed, phase, id, sent, world, known>>

-----------------------------------------------------------------------------
(* version_checker.rs                                                        *)

\* As if it were counted in days, rounded down.
RecentByDays(file) == (Clock - file.at) \div Day <= 1

\* Fewer than 24 hours have gone by, on the clock.
Recent(file) == Clock - file.at < Day

LoadVersion(r) ==
  /\ StandsAt(r, "version")
  /\ IF version \notin {NoVersion, Broken} /\ Recent(version)
     THEN /\ relied' = relied \cup {[of |-> version.of, when |-> now]}
          /\ MoveOn(r, "names")
     ELSE MoveOn(r, "latest") /\ UNCHANGED relied
  /\ UNCHANGED <<allowed, identity, world, version, got, held>>

\* crates.io answers with the latest version, or the check is given up.
GetLatest(r) ==
  /\ StandsAt(r, "latest")
  /\ \/ got' = [got EXCEPT ![r] = [of |-> Latest, at |-> 0, told |-> now]] /\ MoveOn(r, "save")
     \/ May("offline") /\ MoveOn(r, "names") /\ UNCHANGED got
  /\ UNCHANGED <<allowed, identity, world, version, relied, held>>

\* The stamp is the time of writing, not of the answer; the file is emptied first.
SaveVersion(r) ==
  /\ StandsAt(r, "save")
  /\ got' = [got EXCEPT ![r].at = Clock]
  /\ held' = (held \/ got[r].told # now)
  /\ version' = Broken
  /\ MoveOn(r, "write_version")
  /\ UNCHANGED <<allowed, identity, world, relied>>

\* Errors are not looked at.
WriteVersion(r) ==
  /\ StandsAt(r, "write_version")
  /\ version' \in {got[r]} \cup IF May("disk") THEN {Broken} ELSE {}
  /\ MoveOn(r, "names")
  /\ UNCHANGED <<allowed, identity, world, got, relied, held>>

Tick == /\ May("time") /\ now < MaxTime
        /\ now' = now + 1
        /\ UNCHANGED <<allowed, phase, identity, back, releases, turned_back, known>>

SetBack == /\ May("clock") /\ back < MaxBack
           /\ back' = back + 1 /\ turned_back' = TRUE
           /\ UNCHANGED <<allowed, phase, identity, now, releases, known>>

Release == /\ May("release") /\ Latest < MaxReleases
           /\ releases' = [v \in 1 .. Latest + 1 |-> IF v > Latest THEN now ELSE releases[v]]
           /\ UNCHANGED <<allowed, phase, identity, now, back, turned_back, known>>

-----------------------------------------------------------------------------
UserFilesInit ==
  /\ id = [r \in Runs |-> DoNotTrack]
  /\ sent = {} /\ opted_out = FALSE /\ before = {} /\ asking = {}
  /\ now = 0 /\ back = 0 /\ releases = [v \in {1} |-> 0]
  /\ got = [r \in Runs |-> NoVersion]
  /\ relied = {} /\ turned_back = FALSE /\ held = FALSE

UserFilesStep(r) == \/ ReadId(r) \/ AskId(r) \/ CreateId(r) \/ FillId(r) \/ SendReport(r)
                    \/ LoadVersion(r) \/ GetLatest(r) \/ SaveVersion(r) \/ WriteVersion(r)

UserFilesElse == OptOut \/ Tick \/ SetBack \/ Release

-----------------------------------------------------------------------------
\* Who opts out is not tracked by any run that starts from then on, unless another run
\* was asking for an identifier at that moment: it writes over the file (telemetry.rs).
OptOutKept == opted_out => \A s \in sent : s[1] \in before \/ asking # {}

\* A version that has been out for a day is noticed by every run that trusts the file,
\* unless the clock was set back, or a run was held up between the answer of crates.io
\* and writing it down: the file says when it was written.
UpdateNoticed ==
  \A v \in relied :
    v.of + 1 \in DOMAIN releases /\ releases[v.of + 1] + Day <= v.when => turned_back \/ held
=============================================================================
