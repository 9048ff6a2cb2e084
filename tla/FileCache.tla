----------------------------- MODULE FileCache -----------------------------
(***************************************************************************)
(* The open files of libbt (util.c): a ring of FILESETSIZE slots searched  *)
(* by path and options, and openPath(), which makes the directories a file *)
(* needs.                                                                  *)
(***************************************************************************)
EXTENDS Integers

CONSTANTS
  FILESETSIZE,    \* 50 in the code
  Paths, Options, \* names are compared as pointers: a path is its btFile's
  Fds,            \* what open() can return; btget has 0 to 2 open already
  NULL            \* no path

ASSUME FileCacheAssumption ==
  FILESETSIZE \in Nat \ {0} /\ Fds \subseteq Nat \ {0} /\ NULL \notin Paths

VARIABLES
  c_fileset, c_index, last_i,
  open,   \* the process's table: descriptor -> [path, options], or NULL
  got     \* the last call: [path, options, fd], fd -1 for none

vars == <<c_fileset, c_index, last_i, open, got>>

Slots == 0..FILESETSIZE-1
Empty == [fd |-> 0, path |-> NULL, options |-> 0]
NoFile == [path |-> NULL, options |-> 0]

Init ==
  /\ c_fileset = [i \in Slots |-> Empty] /\ c_index = 0 /\ last_i = 0
  /\ open = [fd \in Fds |-> NoFile]
  /\ got = [path |-> NULL, options |-> 0, fd |-> -1]

(* Mutant: a file found under any options will do. *)
HoldsPath(i, path, options) == c_fileset[i].path = path
Holds(i, path, options) == c_fileset[i].path = path /\ c_fileset[i].options = options

(* The slot of the last hit is looked at first. *)
Hit(path, options) ==
  /\ \E i \in Slots :
       /\ Holds(i, path, options)
       /\ Holds(last_i, path, options) => i = last_i
       /\ \A j \in 0..i-1 : i = last_i \/ ~Holds(j, path, options)
       /\ last_i' = i
       /\ got' = [path |-> path, options |-> options, fd |-> c_fileset[i].fd]
  /\ UNCHANGED <<c_fileset, c_index, open>>

Closed(fd) == IF fd > 0 THEN [open EXCEPT ![fd] = NoFile] ELSE open

(* open() gives a free descriptor; the oldest slot is taken and closed after. *)
Fill(path, options) ==
  /\ \A i \in Slots : ~Holds(i, path, options)
  /\ \E fd \in Fds :
       /\ open[fd] = NoFile
       /\ open' = [Closed(c_fileset[c_index].fd) EXCEPT ![fd] = [path |-> path, options |-> options]]
       /\ c_fileset' = [c_fileset EXCEPT ![c_index] = [fd |-> fd, path |-> path, options |-> options]]
       /\ got' = [path |-> path, options |-> options, fd |-> fd]
  /\ c_index' = (c_index + 1) % FILESETSIZE
  /\ UNCHANGED last_i

(* open() fails, also when openPath() tries again. *)
Fail(path, options) ==
  /\ \A i \in Slots : ~Holds(i, path, options)
  /\ got' = [path |-> path, options |-> options, fd |-> -1]
  /\ UNCHANGED <<c_fileset, c_index, last_i, open>>

(* Fifty times round, at the same slot each time. *)
CacheClose ==
  /\ open' = Closed(c_fileset[c_index].fd)
  /\ c_fileset' = IF c_fileset[c_index].fd # 0 THEN [c_fileset EXCEPT ![c_index] = Empty] ELSE c_fileset
  /\ UNCHANGED <<c_index, last_i, got>>

Next ==
  \/ \E path \in Paths, options \in Options :
       Hit(path, options) \/ Fill(path, options) \/ Fail(path, options)
  \/ CacheClose

Spec == Init /\ [][Next]_vars

-----------------------------------------------------------------------------

(* The variables keep their types. *)
TypeOK ==
  /\ c_fileset \in [Slots -> [fd : Fds \cup {0}, path : Paths \cup {NULL}, options : Options \cup {0}]]
  /\ c_index \in Slots /\ last_i \in Slots
  /\ open \in [Fds -> [path : Paths \cup {NULL}, options : Options \cup {0}]]

(* A slot that is in use names the file its descriptor is open on, and two  *)
(* slots never share a descriptor: closing one would close the other's.     *)
SlotsOpen ==
  /\ \A i \in Slots : LET s == c_fileset[i] IN
       IF s.fd = 0 THEN s = Empty
       ELSE s.path \in Paths /\ open[s.fd] = [path |-> s.path, options |-> s.options]
  /\ \A i, j \in Slots : c_fileset[i].fd = c_fileset[j].fd /\ c_fileset[i].fd # 0 => i = j

(* Every descriptor that is open is some slot's: files are closed when they *)
(* leave the ring, and no more than FILESETSIZE are open.                   *)
NoLeak == \A fd \in Fds : open[fd] # NoFile => \E i \in Slots : c_fileset[i].fd = fd

(* What cacheopen() has just returned is open on the file asked for.        *)
RightFile ==
  [][got' # got /\ got'.fd # -1
     => got'.fd \in Fds /\ open'[got'.fd] = [path |-> got'.path, options |-> got'.options]]_vars

(* The ring of open files, whatever is opened, how, and in which order.     *)
RingSound == [](SlotsOpen /\ NoLeak) /\ RightFile
=============================================================================
