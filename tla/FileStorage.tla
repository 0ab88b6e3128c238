----------------------------- MODULE FileStorage -----------------------------
(***************************************************************************)
(* pkg/proxy/internal/file_storage.go: the API server inside the kk        *)
(* process keeps an object in a YAML file per key.  There is no lock: a    *)
(* request is a series of system calls, and those of concurrent requests   *)
(* interleave.  The REST layer above it (genericregistry.Store, external)  *)
(* decides which of its functions a request calls.  The revision counter   *)
(* and the markers of deleted files are for watchers and are left out.     *)
(***************************************************************************)
EXTENDS Naturals, FiniteSets

CONSTANTS
    Client,  \* goroutines that send requests
    Key,     \* namespaced names
    Uid,     \* identities of objects: a name may be used again
    Mark     \* what patches write into the status of an object

VARIABLES
    file,    \* what the file of a key holds
    at,      \* the next system call of a client, or the answer it got
    key,     \* the key of its request
    copy,    \* the object it has read, or is to write
    linked,  \* whether the file it has open for writing has still its name
    todo     \* the files a list has still to read

fvars == <<file, at, key, copy, linked, todo>>

\* "empty": truncated by os.WriteFile and not filled yet, which decodes as an object
\* without a name; "garbled": what two writers at once may leave.
File == [is : {"none", "empty", "garbled", "data"}, uid : Uid, marks : SUBSET Mark]

NoUid == CHOOSE u \in Uid : TRUE
NoFile == [is |-> "none", uid |-> NoUid, marks |-> {}]
EmptyFile == [NoFile EXCEPT !.is = "empty"]
GarbledFile == [NoFile EXCEPT !.is = "garbled"]
Data(u) == [is |-> "data", uid |-> u, marks |-> {}]

Answer == {"ok", "exists", "notfound", "error"}

At == {"idle", "stat", "truncate", "fill", "readback", "update", "get",
       "readdir", "readfiles", "find", "check", "rename"} \cup Answer

FTypeOK ==
    /\ file \in [Key -> File]
    /\ at \in [Client -> At]
    /\ key \in [Client -> Key]
    /\ copy \in [Client -> File]
    /\ linked \in [Client -> BOOLEAN]
    /\ todo \in [Client -> SUBSET Key]

FInit ==
    /\ file = [k \in Key |-> NoFile]
    /\ at = [c \in Client |-> "idle"]
    /\ key = [c \in Client |-> CHOOSE k \in Key : TRUE]
    /\ copy = [c \in Client |-> NoFile]
    /\ linked = [c \in Client |-> FALSE]
    /\ todo = [c \in Client |-> {}]

\* Client c sends a request that starts with system call a; o is its object.
Send(c, a, k, o) ==
    /\ at[c] \in {"idle"} \cup Answer
    /\ at' = [at EXCEPT ![c] = a]
    /\ key' = [key EXCEPT ![c] = k]
    /\ copy' = [copy EXCEPT ![c] = o]
    /\ UNCHANGED <<file, linked, todo>>

\* Client c takes the answer a.
Receive(c, a) ==
    /\ at[c] = a
    /\ at' = [at EXCEPT ![c] = "idle"]
    /\ copy' = [copy EXCEPT ![c] = NoFile]
    /\ UNCHANGED <<file, key, linked, todo>>

\* The requests, by the system call they start with.
SendCreate(c, k, u) == Send(c, "stat", k, Data(u))
SendPatch(c, k, m) == Send(c, "update", k, [Data(NoUid) EXCEPT !.marks = {m}])
SendGet(c, k) == Send(c, "get", k, NoFile)
SendDelete(c, k) == Send(c, "find", k, NoFile)
SendList(c) == Send(c, "readdir", key[c], NoFile)

Here(c) == file[key[c]]

Goes(c, a) == at' = [at EXCEPT ![c] = a]

\* What a read of the file leads to: next if it can be decoded, or missing.
Read(c, next, missing) ==
    CASE Here(c).is = "none" -> missing
      [] Here(c).is = "garbled" -> "error"
      [] Here(c).is \in {"empty", "data"} -> next
-----------------------------------------------------------------------------
(* Create and GuaranteedUpdate *)

KeyExists(c) == Here(c).is # "none"

\* Create: os.Stat, and nothing that would keep the file from appearing after it.
Stat(c) ==
    /\ at[c] = "stat"
    /\ Goes(c, IF KeyExists(c) THEN "exists" ELSE "truncate")
    /\ UNCHANGED <<file, key, copy, linked, todo>>

\* The patch, applied to the object in the file.
Updated(c) == [Here(c) EXCEPT !.marks = @ \cup copy[c].marks]

\* GuaranteedUpdate: read and tryUpdate.  Store.Update asks to ignore a missing
\* file, and then the answer is an empty object and no error; its tryUpdate takes
\* an object without a version for one that is not there.
Update(c) ==
    /\ at[c] = "update"
    /\ Goes(c, IF Here(c).is = "empty" THEN "notfound" ELSE Read(c, "truncate", "ok"))
    /\ copy' = IF Here(c).is = "data" THEN [copy EXCEPT ![c] = Updated(c)] ELSE copy
    /\ UNCHANGED <<file, key, linked, todo>>

\* writeObject: os.WriteFile opens the file and truncates it, or makes it,
Truncate(c) ==
    /\ at[c] = "truncate"
    /\ file' = [file EXCEPT ![key[c]] = EmptyFile]
    /\ linked' = [linked EXCEPT ![c] = TRUE]
    /\ Goes(c, "fill")
    /\ UNCHANGED <<key, copy, todo>>

\* then writes it.  If the file was renamed the object goes with it; if somebody
\* else filled it before, a longer rest may stay behind.
Fill(c) ==
    /\ at[c] = "fill"
    /\ IF linked[c]
       THEN \E o \in {copy[c]} \cup (IF Here(c).is = "data" THEN {GarbledFile} ELSE {}) :
              file' = [file EXCEPT ![key[c]] = o]
       ELSE UNCHANGED file
    /\ linked' = [linked EXCEPT ![c] = FALSE]
    /\ Goes(c, "readback")
    /\ UNCHANGED <<key, copy, todo>>

\* The object is read again for the answer.
ReadBack(c) ==
    /\ at[c] = "readback"
    /\ Goes(c, Read(c, "ok", "error"))
    /\ copy' = [copy EXCEPT ![c] = Here(c)]
    /\ UNCHANGED <<file, key, linked, todo>>

-----------------------------------------------------------------------------
(* Get, GetList and Delete *)

Get(c) ==
    /\ at[c] = "get"
    /\ Goes(c, Read(c, "ok", "notfound"))
    /\ copy' = [copy EXCEPT ![c] = Here(c)]
    /\ UNCHANGED <<file, key, linked, todo>>

\* GetList: the names first,
ReadDir(c) ==
    /\ at[c] = "readdir"
    /\ todo' = [todo EXCEPT ![c] = {k \in Key : file[k].is # "none"}]
    /\ Goes(c, IF todo'[c] = {} THEN "ok" ELSE "readfiles")
    /\ UNCHANGED <<file, key, copy, linked>>

\* then file after file; one that is gone or cannot be decoded fails the list.  An
\* object in matching is kept for the answer; an empty one has no labels.
ReadFiles(c, matching) ==
    /\ at[c] = "readfiles"
    /\ \E k \in todo[c] :
         LET fails == file[k].is \in {"none", "garbled"} IN
         /\ todo' = [todo EXCEPT ![c] = IF fails THEN {} ELSE @ \ {k}]
         /\ copy' = [copy EXCEPT ![c] =
                       IF file[k].is = "data" /\ file[k].uid \in matching THEN file[k] ELSE @]
         /\ Goes(c, CASE fails -> "error"
                      [] ~ fails /\ todo'[c] = {} -> "ok"
                      [] OTHER -> "readfiles")
    /\ UNCHANGED <<file, key, linked>>

\* Store.Delete gets the object,
Find(c) ==
    /\ at[c] = "find"
    /\ Goes(c, Read(c, "check", "notfound"))
    /\ UNCHANGED <<file, key, copy, linked, todo>>

\* fileStore.Delete reads it again,
Check(c) ==
    /\ at[c] = "check"
    /\ Goes(c, Read(c, "rename", "error"))
    /\ UNCHANGED <<file, key, copy, linked, todo>>

\* and renames the file to its marker, whatever it holds by now.
Rename(c) ==
    /\ at[c] = "rename"
    /\ Goes(c, IF Here(c).is = "none" THEN "notfound" ELSE "ok")
    /\ file' = [file EXCEPT ![key[c]] = NoFile]
    /\ linked' = [d \in Client |-> linked[d] /\ key[d] # key[c]]
    /\ UNCHANGED <<key, copy, todo>>

SystemCall(c, matching) ==
    \/ Stat(c) \/ Update(c) \/ Truncate(c) \/ Fill(c) \/ ReadBack(c)
    \/ Get(c) \/ ReadDir(c) \/ ReadFiles(c, matching)
    \/ Find(c) \/ Check(c) \/ Rename(c)

\* The process ends: nobody has a request or a file open any more.
FCrash ==
    /\ at' = [c \in Client |-> "idle"]
    /\ copy' = [c \in Client |-> NoFile]
    /\ linked' = [c \in Client |-> FALSE]
    /\ todo' = [c \in Client |-> {}]
    /\ UNCHANGED <<file, key>>
=============================================================================
