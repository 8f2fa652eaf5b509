------------------------------- MODULE Updater -------------------------------
(***************************************************************************)
(* Keeping the installed database up to date: `location update`            *)
(* (handle_update in src/src/scripts/location.in), which asks the DNS for  *)
(* the latest version, downloads a database from one mirror after the      *)
(* other into a temporary file (src/src/python/location/downloader.py) and *)
(* moves that into place.                                                  *)
(*                                                                         *)
(* Several updaters may run at once: the daily timer and somebody at the   *)
(* command line.  They share nothing but the installed file.               *)
(*                                                                         *)
(* A version is the time a database was created.  A file is the sequence   *)
(* of what was written to it, one piece for each mirror that sent data.    *)
(***************************************************************************)
EXTENDS Naturals, Sequences

CONSTANTS Updaters,
          Timed,       \* those that the timer starts again and again
          Mirrors,     \* how many mirrors there are
          MaxVersion   \* bound: the last version that is published

ASSUME TimedAssumption == Timed \subseteq Updaters
ASSUME MirrorsAssumption == Mirrors \in Nat
ASSUME MaxVersionAssumption == MaxVersion \in Nat \ {0}

\* No version: no database is installed, or the DNS has no answer.
None == 0
Versions == 1..MaxVersion

\* A piece is a whole, signed database; something that opens like a database but
\* is none, since bytes are missing, different or not signed; or something that
\* does not even open.
Scrap == [version |-> None, kind |-> "scrap"]
Piece == [version : Versions, kind : {"signed", "unsigned"}] \cup {Scrap}
File == Seq(Piece)
SignedDatabase(version) == [version |-> version, kind |-> "signed"]

VARIABLES latest,      \* the version published last
          healthy,     \* whether DNS and mirrors have what was published last, and
                       \* send nothing else, if they send anything
          installed,   \* the database file, <<>> when there is none
          pc,          \* what each updater does
          current,     \* the version it found installed
          timestamp,   \* the version the DNS has told it
          untried,     \* how many mirrors it has left
          temporary    \* its temporary file

env == <<latest, healthy>>
run == <<current, timestamp, untried, temporary>>
updaterVars == <<env, installed, pc, run>>

UpdaterInit ==
    /\ latest = 1
    /\ healthy = FALSE
    /\ installed \in {<<>>, <<SignedDatabase(1)>>}
    /\ pc = [u \in Updaters |-> "idle"]
    /\ current = [u \in Updaters |-> None]
    /\ timestamp = [u \in Updaters |-> None]
    /\ untried = [u \in Updaters |-> 0]
    /\ temporary = [u \in Updaters |-> <<>>]

-----------------------------------------------------------------------------
(* What opening and verifying a file says (DatabaseFile) *)

\* The header is that of the first piece, whatever comes behind it.
VersionOf(f) == IF f = <<>> THEN None ELSE Head(f).version
Readable(f) == f # <<>> /\ Head(f).kind # "scrap"

\* Fault: the signature of the last piece is good enough.
VerifiedLast(f) == f # <<>> /\ f[Len(f)].kind = "signed"

\* The signature is over everything in the file.
Verified(f) == \E version \in Versions : f = <<SignedDatabase(version)>>

-----------------------------------------------------------------------------
(* DNS and mirrors *)

Publish ==
    /\ ~healthy
    /\ latest < MaxVersion
    /\ latest' = latest + 1
    /\ UNCHANGED <<healthy, installed, pc, run>>

\* Nothing more is published, and everybody has it.
Settle ==
    /\ ~healthy
    /\ healthy' = TRUE
    /\ UNCHANGED <<latest, installed, pc, run>>

\* loc_discover_latest_version: no answer, or one that may be out of date
Answers == IF healthy THEN {latest} ELSE {None} \cup 1..latest

\* What a mirror that answers may send before it stops
Deliveries ==
    IF healthy THEN {<<SignedDatabase(latest)>>}
    ELSE {<<>>, <<Scrap>>} \cup {<<[version |-> version, kind |-> kind]>> :
                                    version \in 1..latest, kind \in {"signed", "unsigned"}}

-----------------------------------------------------------------------------
(* handle_update *)

GoTo(u, step) == pc' = [pc EXCEPT ![u] = step]

\* The process ends, and what it knew is gone.
Exit(u) ==
    /\ GoTo(u, "idle")
    /\ current' = [current EXCEPT ![u] = None]
    /\ timestamp' = [timestamp EXCEPT ![u] = None]
    /\ untried' = [untried EXCEPT ![u] = 0]
    /\ temporary' = [temporary EXCEPT ![u] = <<>>]

\* The run may go on without a database.
Start(u) ==
    /\ pc[u] = "idle"
    /\ GoTo(u, "opened")
    /\ current' = [current EXCEPT ![u] = VersionOf(installed)]
    /\ UNCHANGED <<env, installed, timestamp, untried, temporary>>

\* With --cron, which the timer does not give: the database found was created
\* recently enough.
UpdatedRecently(u) ==
    /\ u \notin Timed
    /\ pc[u] = "opened" /\ current[u] # None
    /\ Exit(u)
    /\ UNCHANGED <<env, installed>>

\* Fault: nobody looks whether there is anything new.
IsLatestNever(u, t) == FALSE

IsLatest(u, t) == current[u] # None /\ t # None /\ current[u] >= t

AlreadyLatest(u) ==
    /\ pc[u] = "opened"
    /\ \E t \in Answers : IsLatest(u, t)
    /\ Exit(u)
    /\ UNCHANGED <<env, installed>>

Discover(u) ==
    /\ pc[u] = "opened"
    /\ \E t \in Answers :
          /\ ~IsLatest(u, t)
          /\ timestamp' = [timestamp EXCEPT ![u] = t]
    /\ untried' = [untried EXCEPT ![u] = Mirrors]
    /\ GoTo(u, "requesting")
    /\ UNCHANGED <<env, installed, current, temporary>>

\* The move is a rename in one directory.
Move(u) ==
    /\ pc[u] = "moving"
    /\ installed' = temporary[u]
    /\ Exit(u)
    /\ UNCHANGED env

-----------------------------------------------------------------------------
(* Downloader.download *)

Requesting(u) == pc[u] = "requesting" /\ untried[u] > 0
Try(u) == untried' = [untried EXCEPT ![u] = @ - 1]

\* An error of the server, 304 if it has nothing newer.  truncate() leaves the
\* file as it is: it cuts where the position is, which is behind the data.
Refused(u) ==
    /\ ~healthy
    /\ Requesting(u)
    /\ Try(u)
    /\ UNCHANGED <<env, installed, pc, current, timestamp, temporary>>

Receive(u, data) ==
    /\ Requesting(u)
    /\ Try(u)
    /\ temporary' = [temporary EXCEPT ![u] = @ \o data]
    /\ UNCHANGED <<env, installed, current, timestamp>>

\* The data ends, with the database or before.
Download(u) ==
    \E data \in Deliveries : Receive(u, data) /\ GoTo(u, "checking")

\* The data cannot be decompressed any further; what was, stays in the file.
DecompressionFails(u) ==
    /\ ~healthy
    /\ \E data \in Deliveries :
          /\ \A i \in DOMAIN data : data[i].kind # "signed"
          /\ Receive(u, data)
    /\ UNCHANGED pc

\* The temporary file is deleted.
NotFound(u) ==
    /\ pc[u] = "requesting" /\ untried[u] = 0
    /\ Exit(u)
    /\ UNCHANGED <<env, installed>>

\* Fault: a database that is just as old as it has to be is outdated.
OutdatedUnlessNewer(u) == timestamp[u] # None /\ VersionOf(temporary[u]) <= timestamp[u]

Outdated(u) == timestamp[u] # None /\ VersionOf(temporary[u]) < timestamp[u]

\* Fault: how old the database is does not matter.
CheckPassesOutdated(u) ==
    /\ pc[u] = "checking"
    /\ Readable(temporary[u]) /\ Verified(temporary[u])
    /\ GoTo(u, "moving")
    /\ UNCHANGED <<env, installed, run>>

CheckPasses(u) ==
    /\ pc[u] = "checking"
    /\ Readable(temporary[u]) /\ ~Outdated(u) /\ Verified(temporary[u])
    /\ GoTo(u, "moving")
    /\ UNCHANGED <<env, installed, run>>

\* The data is not thrown away, see Refused.
CheckFails(u) ==
    /\ pc[u] = "checking"
    /\ Readable(temporary[u]) /\ (Outdated(u) \/ ~Verified(temporary[u]))
    /\ GoTo(u, "requesting")
    /\ UNCHANGED <<env, installed, run>>

\* Nothing catches the exception; the temporary file stays behind.
CheckRaises(u) ==
    /\ pc[u] = "checking"
    /\ ~Readable(temporary[u])
    /\ Exit(u)
    /\ UNCHANGED <<env, installed>>

\* Any other exception, of the network or of the file system, or the process is
\* killed
Fail(u) ==
    /\ ~healthy
    /\ pc[u] # "idle"
    /\ Exit(u)
    /\ UNCHANGED <<env, installed>>

-----------------------------------------------------------------------------
\* What a run does by itself; a question to the DNS ends, the resolver sets a
\* timeout.
RunsOn(u) ==
    \/ UpdatedRecently(u) \/ AlreadyLatest(u) \/ Discover(u) \/ NotFound(u)
    \/ CheckPasses(u) \/ CheckFails(u) \/ CheckRaises(u) \/ Move(u)

\* How the mirror ends a connection
ConnectionEnds(u) == Refused(u) \/ Download(u) \/ DecompressionFails(u)

UpdaterNext ==
    \/ Publish \/ Settle
    \/ \E u \in Updaters : Start(u) \/ RunsOn(u) \/ ConnectionEnds(u) \/ Fail(u)

\* Nothing makes a connection end: a mirror may send nothing and not close it, the
\* code sets no timeout, and the timer starts the next run only when one has ended.
Fairness == /\ \A u \in Updaters : WF_updaterVars(RunsOn(u))
            /\ \A u \in Timed : WF_updaterVars(Start(u))

UpdaterSpec == UpdaterInit /\ [][UpdaterNext]_updaterVars /\ Fairness

-----------------------------------------------------------------------------
(* Properties *)

\* Type correctness: above all, files are pieces of versions that were published.
TypeOK ==
    /\ latest \in Versions
    /\ healthy \in BOOLEAN
    /\ installed \in File
    /\ pc \in [Updaters -> {"idle", "opened", "requesting", "checking", "moving"}]
    /\ current \in [Updaters -> {None} \cup Versions]
    /\ timestamp \in [Updaters -> {None} \cup Versions]
    /\ untried \in [Updaters -> 0..Mirrors]
    /\ temporary \in [Updaters -> File]

\* What is installed is one whole database with a valid signature, never a part
\* of one and never what several mirrors have left in a temporary file, although
\* that is never emptied.
InstalledIsVerified ==
    installed = <<>> \/ \E version \in Versions : installed = <<SignedDatabase(version)>>

\* What is about to be moved into place has been checked, and the check still
\* holds: nobody else writes to the temporary file.
MovingIsChecked ==
    \A u \in Updaters : pc[u] = "moving" => Verified(temporary[u]) /\ ~Outdated(u)

\* A mirror is only asked for something newer than what was found installed.
WantsNewer ==
    \A u \in Updaters :
        pc[u] \in {"requesting", "checking", "moving"} => ~IsLatest(u, timestamp[u])

\* The invariant of the updaters: however they overlap, each has checked what it
\* is about to install, and wants it.
UpdaterInv == TypeOK /\ InstalledIsVerified /\ MovingIsChecked /\ WantsNewer

\* An updater replaces a database by a newer one only, unless the DNS had no
\* answer for it or another updater has replaced what it had found installed.
OnlyNewerReplaces ==
    [][\A u \in Updaters : Move(u) =>
           \/ timestamp[u] = None
           \/ current[u] # VersionOf(installed)
           \/ VersionOf(temporary[u]) > VersionOf(installed)]_updaterVars

\* A mirror never ends the connection.
HangsForever(u) == <>[]Requesting(u)

\* Once DNS and mirrors have settled the latest version gets installed and stays,
\* whatever updaters have begun before and do next to the timer, and however many
\* of these hang.  Only a mirror that keeps the timer's own run waiting forever
\* prevents it, for then there is no other run.
LatestGetsInstalled ==
    <>healthy => \/ <>[](VersionOf(installed) = latest)
                 \/ \A u \in Timed : HangsForever(u)

\* Whether a mirror has sent what the updater wants: whatever they send stays.
Served(u) ==
    \E i \in DOMAIN temporary[u] :
        temporary[u][i].kind = "signed" /\ temporary[u][i].version >= timestamp[u]

\* "If the downloaded file is outdated, the next mirror will be tried until we
\* have found a file that is recent enough" (man/location.txt:141): a run that
\* finds no file was not sent one.
GoodMirrorSuffices == [][\A u \in Updaters : NotFound(u) => ~Served(u)]_updaterVars
=============================================================================
