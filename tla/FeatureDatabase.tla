--------------------------- MODULE FeatureDatabase ---------------------------
(***************************************************************************)
(* The editable feature database and the watcher's token cache             *)
(* (feature_database.py).  Owners edit the database with any SQLite tool   *)
(* or replace the file; every two seconds the watcher asks for a token of  *)
(* the content.  FeatureDatabaseTokenCache.read answers from its cache     *)
(* while neither the files' stamp nor the data_version its connection sees *)
(* has moved.                                                              *)
(*                                                                         *)
(* The content stands for its hash.  A commit always moves data_version;   *)
(* sizes and mtimes, which it may leave as they were, can only show more   *)
(* and are left out of the stamp.  Replacing the file gives it an inode    *)
(* nobody holds; a connection stays on the file it opened.                 *)
(***************************************************************************)
EXTENDS Naturals, FiniteSets

CONSTANTS
    Contents,    \* what the database can say
    FirstContent,
    NoToken,
    MaxEdits,    \* bound: commits and replacements
    MaxFaults    \* bound: reads, loads and additions that fail

ASSUME ContentAssumption == FirstContent \in Contents /\ NoToken \notin Contents
ASSUME BoundAssumption == MaxEdits \in Nat /\ MaxFaults \in Nat

VARIABLES
    db,          \* the file the path names: inode, content, and edits so far
    versions,    \* data_version of every file that ever was there
    cache,       \* the connection, stamp and token FeatureDatabaseTokenCache keeps
    reading,     \* the read under way: its step and locals
    during,      \* history: contents the path had since the read began, empty when none is under way
    faults

dbVars == <<db, versions, cache, reading, during, faults>>

NoStamp == [inode |-> 0, version |-> 0]
Idle == [step |-> "idle", inode |-> 0, version |-> 0, token |-> NoToken]

InitDatabase ==
    /\ db = [inode |-> 1, content |-> FirstContent, edits |-> 0]
    /\ versions = [i \in 1..(MaxEdits + 1) |-> 1]
    /\ cache = [conn |-> 0, identity |-> 0, stamp |-> NoStamp, token |-> NoToken]
    /\ reading = Idle
    /\ during = {}
    /\ faults = 0

(***************************************************************************)
(* Edits, by the owner's tools.                                            *)
(***************************************************************************)
Becomes(file) ==
    /\ db' = file
    /\ during' = IF during = {} THEN {} ELSE during \union {file.content}

Commit(c) ==
    /\ db.edits < MaxEdits /\ c # db.content
    /\ Becomes([db EXCEPT !.content = c, !.edits = @ + 1])
    /\ versions' = [versions EXCEPT ![db.inode] = @ + 1]
    /\ UNCHANGED <<cache, reading, faults>>

ReplaceFile(c) ==
    /\ db.edits < MaxEdits
    /\ Becomes([inode |-> db.inode + 1, content |-> c, edits |-> db.edits + 1])
    /\ UNCHANGED <<versions, cache, reading, faults>>

(***************************************************************************)
(* FeatureDatabaseTokenCache.read: each step sees the file of its moment.  *)
(***************************************************************************)
Files ==
    /\ reading' = [reading EXCEPT !.step = "version", !.inode = db.inode]
    /\ during' = {db.content}
    /\ UNCHANGED <<db, versions, cache, faults>>

\* the connection is kept while the path still names the file it was opened for
Connected ==
    IF cache.conn # 0 /\ cache.identity = reading.inode THEN cache
    ELSE [cache EXCEPT !.conn = db.inode, !.identity = reading.inode, !.stamp = NoStamp]

Stamp(inode, version) == [inode |-> inode, version |-> version]
Before == Stamp(reading.inode, reading.version)

Answer(token) == [Idle EXCEPT !.step = "answer", !.token = token]

Version ==
    /\ reading.step = "version"
    /\ cache' = Connected
    /\ LET seen == versions[cache'.conn]
           same == cache.token # NoToken /\ cache'.stamp = Stamp(reading.inode, seen)
       IN  \/ /\ same        \* and less than a minute old
              /\ reading' = [reading EXCEPT !.step = "answer", !.token = cache.token]
           \/ reading' = [reading EXCEPT !.step = "read", !.version = seen]
    /\ UNCHANGED <<db, versions, during, faults>>

Read ==
    /\ reading.step = "read"
    /\ reading' = [reading EXCEPT !.step = "after", !.token = db.content]
    /\ UNCHANGED <<db, versions, cache, during, faults>>

\* mutant: the stamp taken after the read is kept whatever it was before
SettledAlways(before, after) == after
\* a stamp is kept only when nothing moved around the read
Settled(before, after) == IF before = after THEN after ELSE NoStamp

After ==
    /\ reading.step = "after"
    /\ cache' = [cache EXCEPT !.token = reading.token,
                              !.stamp = Settled(Before, Stamp(db.inode, versions[cache.conn]))]
    /\ reading' = Answer(reading.token)
    /\ UNCHANGED <<db, versions, during, faults>>

\* OSError, ValueError or sqlite3.Error: no later cached answer is authorised
ReadFails ==
    /\ reading.step \in {"version", "read", "after"} /\ faults < MaxFaults
    /\ cache' = [cache EXCEPT !.stamp = NoStamp]
    /\ reading' = Idle /\ during' = {}
    /\ faults' = faults + 1
    /\ UNCHANGED <<db, versions>>

ReadStep == Version \/ Read \/ After

(***************************************************************************)
(* An answer is a content the database had while it was being asked for,   *)
(* cached or not: no commit, however it was made and whenever it landed,   *)
(* is hidden from the next question.                                       *)
(***************************************************************************)
AnswerIsCurrent == reading.step = "answer" => reading.token \in during
==============================================================================
