------------------------------ MODULE Stickers ------------------------------
(***************************************************************************)
(* POST /ugc/generate, and POST /scan/claim with the token of a player's   *)
(* sticker.  A player has one sticker at most, so it is named by its owner.*)
(* Its rewards are two outbox events; this module follows them to the      *)
(* table, the outbox relay from there.                                     *)
(***************************************************************************)
EXTENDS PlayerSessions

CONSTANTS
    Asked          \* what is asked for: stickers to make, and tokens scanned

ASSUME AskedAssumption ==
    /\ Asked \subseteq {j \in Jobs : j.kind \in {"generate", "scan"} /\ j.of \in Players}
    /\ \A j \in Asked : j.kind = "generate" => j.of = j.who

VARIABLES
    limited,       \* players with a rate_limit:scan key in Redis
    stickers,      \* owners of a row of user_stickers
    scanCount,     \* user_stickers.scan_count
    scans,         \* user_sticker_scans: <<scanner, owner>>
    incomes,       \* outbox events ugc_passive_income, by <<scanner, owner>>
    claims         \* outbox events scan_claimed with id scan_ugc_<scanner>_<owner>

stickerVars == <<limited, stickers, scanCount, scans, incomes, claims>>

Pairs == Players \X Players

StickersInit ==
    /\ limited = {} /\ stickers = {} /\ scans = {}
    /\ scanCount = [p \in Players |-> 0]
    /\ incomes = [pair \in Pairs |-> 0]
    /\ claims = [pair \in Pairs |-> 0]

PairOf(s) == <<job[s].who, job[s].of>>

\* Ends with nothing written.
Answer(s, from) == pc[s] = from /\ Finish(s) /\ UNCHANGED <<users, raced, stickerVars>>

-----------------------------------------------------------------------------
\* generate_my_sticker: the first look.  A sticker that is there is the end of it.
LookForSticker(s) == \E j \in Asked :
    /\ j.kind = "generate" /\ j.who \in users \ stickers
    /\ Begin(s, j, "create")
    /\ UNCHANGED stickerVars

\* Mutant: the new sticker takes the place of the old one.
BugCreateSticker(s) ==
    /\ pc[s] = "create" /\ Finish(s)
    /\ stickers' = stickers \cup {job[s].of}
    /\ scanCount' = [scanCount EXCEPT ![job[s].of] = 0]
    /\ UNCHANGED <<users, raced, limited, scans, incomes, claims>>

\* create_sticker: the unique index on user_id answers what another request has made
\* since; its error becomes StickerAlreadyExists.
CreateSticker(s) ==
    \/ /\ pc[s] = "create" /\ job[s].of \notin stickers /\ Finish(s)
       /\ stickers' = stickers \cup {job[s].of}
       /\ UNCHANGED <<users, raced, limited, scanCount, scans, incomes, claims>>
    \/ Answer(s, "create") /\ job[s].of \in stickers

-----------------------------------------------------------------------------
\* INCR and EXPIRE in one transaction of Redis.  Who has the key is refused, and the
\* key lives on.
RateLimit(s) == \E j \in Asked :
    /\ j.kind = "scan" /\ j.who \in users \ limited
    /\ Begin(s, j, "find sticker")
    /\ limited' = limited \cup {j.who}
    /\ UNCHANGED <<stickers, scanCount, scans, incomes, claims>>

\* The key runs out after 5 s, whether the request has ended or not.
WindowEnds(p) ==
    /\ p \in limited /\ limited' = limited \ {p}
    /\ UNCHANGED <<playerVars, stickers, scanCount, scans, incomes, claims>>

\* get_active_sticker_by_token, with the scan_count it has.  ScanNotFound, or one's own.
FindSticker(s) ==
    LET owner == job[s].of IN
    \/ /\ Goto(s, "find sticker", "find scan")
       /\ owner \in stickers \ {job[s].who}
       /\ seen' = [seen EXCEPT ![s] = scanCount[owner]]
       /\ UNCHANGED stickerVars
    \/ Answer(s, "find sticker") /\ owner \notin stickers \ {job[s].who}

\* has_user_scanned_sticker: "already_collected".
FindScan(s) ==
    \/ Goto(s, "find scan", "record") /\ PairOf(s) \notin scans /\ UNCHANGED <<seen, stickerVars>>
    \/ Answer(s, "find scan") /\ PairOf(s) \in scans

\* Mutant: two rows of one pair.
BugRecordScan(s) == Goto(s, "record", "count") /\ UNCHANGED <<seen, stickerVars>>

\* record_scan waits for another session's uncommitted row of the same pair; the
\* error of the unique index is not caught.
RecordScan(s) ==
    /\ pc[s] = "record"
    /\ ~\E t \in Sessions : pc[t] = "count" /\ PairOf(t) = PairOf(s)
    /\ \/ Goto(s, "record", "count") /\ PairOf(s) \notin scans /\ UNCHANGED <<seen, stickerVars>>
       \/ Answer(s, "record") /\ PairOf(s) \in scans

\* increment_scan_count, of what was read, and the two events, in one commit.
CountScan(s) ==
    LET pair == PairOf(s)  owner == job[s].of IN
    /\ pc[s] = "count" /\ Finish(s)
    /\ scans' = scans \cup {pair}
    /\ scanCount' = [scanCount EXCEPT ![owner] = seen[s] + 1]
    /\ incomes' = [incomes EXCEPT ![pair] = @ + 1]
    /\ claims' = [claims EXCEPT ![pair] = @ + 1]
    /\ raced' = Races(s, "scan_count", owner, {"find scan", "record", "count"})
    /\ UNCHANGED <<users, limited, stickers>>

\* A crash or an error: everything but the key is rolled back.
RequestFails(s) ==
    /\ pc[s] # "idle" /\ job[s].kind # "login" /\ Answer(s, pc[s])

Scan(s) == \/ RateLimit(s) \/ FindSticker(s) \/ FindScan(s) \/ RecordScan(s) \/ CountScan(s)
Sticker(s) == LookForSticker(s) \/ CreateSticker(s) \/ Scan(s) \/ RequestFails(s)
=============================================================================
