-------------------------------- MODULE Maker --------------------------------
(***************************************************************************)
(* The torrent builder (tools/builder/main.cc): its walk over the          *)
(* arguments, then the files read through one buffer that fills across     *)
(* their ends, one piece after the other.  A piece is what is hashed, a    *)
(* byte its file and position.                                             *)
(***************************************************************************)
EXTENDS Integers, SequencesExt

CONSTANTS
  Letter,   \* of the arguments that begin with '-': the character after it
  Text,     \* of the others, the names of files: their characters
  Size,     \* of the files, in bytes
  Number,   \* atoi() of the arguments that are numbers
  MaxArgs,
  Default   \* the name and the piece length without -n and -k

Args == DOMAIN Letter \cup DOMAIN Size \cup DOMAIN Number
Atoi(a) == IF a \in DOMAIN Number THEN Number[a] ELSE 0

MakerAssumption ==
  /\ DOMAIN Text = DOMAIN Size /\ Size \in [DOMAIN Size -> Nat]
  /\ Number \in [DOMAIN Number -> Nat]
  /\ \A f \in DOMAIN Text : Text[f] \in Seq(STRING)
  /\ "" \notin Args /\ Default.length \in Nat /\ MaxArgs \in Nat

None == ""
Content(f) == [i \in 1..Size[f] |-> <<f, i>>]
Takes == {"a", "l", "d", "m", "u", "o"}  \* the options that set a text: what they set is left out

VARIABLES
  phase,                               \* "args", "build", "done", "exit", "crash"
  nargs, opt, count, path, files,      \* the walk over the arguments
  name, length, mode,                  \* __info_name, __piece_length, __file_mode
  todo, pos, buf, pieces, entries      \* files to read, where, __piece_buffer, __piece_hash; written

args == <<nargs, opt, count, path, files, name, length>>
vars == <<phase, args, mode, todo, pos, buf, pieces, entries>>

Init ==
  /\ phase = "args" /\ nargs = 0 /\ opt = None /\ count = 0 /\ path = None /\ files = <<>>
  /\ name = Default.name /\ length = Default.length /\ mode = "SINGLE"
  /\ todo = <<>> /\ pos = 0 /\ buf = <<>> /\ pieces = <<>> /\ entries = <<>>

-----------------------------------------------------------------------------
(* The arguments.  An option takes the next argument, -h too.               *)

Reading ==
  /\ phase = "args" /\ nargs < MaxArgs /\ nargs' = nargs + 1
  /\ UNCHANGED <<todo, pos, buf, pieces, entries>>

Option(a) ==
  /\ Reading /\ opt = None /\ a \in DOMAIN Letter
  /\ opt' = Letter[a] /\ UNCHANGED <<phase, count, path, files, name, length, mode>>

File(a) ==
  /\ Reading /\ opt = None /\ a \notin DOMAIN Letter
  /\ path' = a /\ files' = Append(files, a) /\ mode' = "MULTI" /\ count' = count + 1
  /\ UNCHANGED <<phase, opt, name, length>>

OptionSet(a) ==
  /\ Reading /\ opt \in Takes \cup {"-", "n", "k"} /\ opt' = None
  /\ name' = IF opt = "n" THEN a ELSE name
  /\ count' = IF opt = "n" THEN count + 1 ELSE count
  /\ length' = IF opt = "k" THEN Atoi(a) ELSE length
  /\ UNCHANGED <<phase, path, files, mode>>

Refused(a) ==
  /\ Reading /\ opt \notin Takes \cup {None, "-", "n", "k"}
  /\ phase' = "exit" /\ UNCHANGED <<opt, count, path, files, name, length, mode>>

(* After the last one: what is alone is the single file, though -n counts   *)
(* too; without a file it is NULL, which strdup() or fopen() is given.      *)
EndArgs ==
  /\ phase = "args"
  /\ phase' = IF count = 0 THEN "exit" ELSE IF path = None THEN "crash" ELSE "build"
  /\ mode' = IF count = 1 THEN "SINGLE" ELSE mode
  /\ todo' = IF phase' # "build" THEN <<>> ELSE IF mode' = "SINGLE" THEN <<path>> ELSE files
  /\ UNCHANGED <<args, pos, buf, pieces, entries>>

-----------------------------------------------------------------------------
(* The pieces.                                                              *)

Separators == {"/", "\\"}

(* write_path_list: the elements of a path, empty ones left out.  As far as *)
(* the i-th character they are `list`, and `el` what is begun.              *)
Take(acc) == IF acc.el = <<>> THEN acc.list ELSE Append(acc.list, acc.el)

PathList(t) ==
  LET walk[i \in 0..Len(t)] ==
        IF i = 0 THEN [list |-> <<>>, el |-> <<>>]
        ELSE IF t[i] \in Separators THEN [list |-> Take(walk[i - 1]), el |-> <<>>]
        ELSE [walk[i - 1] EXCEPT !.el = Append(@, t[i])]
  IN Take(walk[Len(t)])

Room == length - Len(buf)
Full(b) == Len(b) >= length

(* Mutant: each file begins a piece. *)
NextFileAlone(b, p) == /\ buf' = <<>> /\ pieces' = IF b = <<>> THEN p ELSE Append(p, b)

NextFile(b, p) == buf' = b /\ pieces' = p

(* One turn of the loop in build_hash(): feof() is set by an fread() that   *)
(* got less than it wanted; with a piece length of zero none ever does.     *)
Read ==
  /\ phase = "build" /\ todo # <<>>
  /\ LET f == Head(todo)
         got == Min({Room, Size[f] - pos})
         b == buf \o SubSeq(Content(f), pos + 1, pos + got)
         hashed == Full(b) /\ b # <<>>
         b1 == IF hashed THEN <<>> ELSE b
         p1 == IF hashed THEN Append(pieces, b) ELSE pieces
     IN IF got < Room
        THEN /\ NextFile(b1, p1) /\ todo' = Tail(todo) /\ pos' = 0
             /\ entries' = Append(entries, [path |-> PathList(Text[f]), length |-> pos + got])
        ELSE /\ buf' = b1 /\ pieces' = p1 /\ pos' = pos + got /\ UNCHANGED <<todo, entries>>
  /\ UNCHANGED <<phase, args, mode>>

(* write_pieces: the rest is the last piece. *)
Finish ==
  /\ phase = "build" /\ todo = <<>> /\ phase' = "done" /\ buf' = <<>>
  /\ pieces' = IF buf = <<>> THEN pieces ELSE Append(pieces, buf)
  /\ UNCHANGED <<args, mode, todo, pos, entries>>

Next ==
  \/ \E a \in Args : Option(a) \/ OptionSet(a) \/ Refused(a)
  \/ \E a \in DOMAIN Size : File(a)
  \/ EndArgs \/ Read \/ Finish

Spec == Init /\ [][Next]_vars

-----------------------------------------------------------------------------

(* The variables keep their types, and a piece never outgrows its length. *)
TypeOK ==
  /\ phase \in {"args", "build", "done", "exit", "crash"} /\ nargs \in 0..MaxArgs
  /\ count \in Nat /\ mode \in {"SINGLE", "MULTI"} /\ length \in Nat
  /\ files \in Seq(DOMAIN Size) /\ todo \in Seq(DOMAIN Size)
  /\ length > 0 => Len(buf) < length /\ \A i \in DOMAIN pieces : Len(pieces[i]) <= length

Sources == IF mode = "SINGLE" THEN <<path>> ELSE files

(* The pieces are the files one after the other, cut at every piece length  *)
(* whatever the files' ends, and the last piece is the rest.                *)
PiecesOfStream ==
  phase = "done" =>
    /\ FlattenSeq(pieces) = FlattenSeq([i \in DOMAIN Sources |-> Content(Sources[i])])
    /\ \A i \in DOMAIN pieces : IF i < Len(pieces) THEN Len(pieces[i]) = length
                                ELSE Len(pieces[i]) \in 1..length

(* The names in a path are what stands between separators, in order.        *)
NamesOf(t, list) ==
  \E s, e \in [DOMAIN list -> DOMAIN t] :
    /\ \A k \in DOMAIN list : s[k] <= e[k] /\ list[k] = SubSeq(t, s[k], e[k])
    /\ \A k \in DOMAIN list : k > 1 => e[k - 1] + 1 < s[k]
    /\ \A i \in DOMAIN t : t[i] \notin Separators <=> \E k \in DOMAIN list : i \in s[k]..e[k]

(* Every file is written with its size and the names of its path in order. *)
EntriesOfFiles ==
  phase = "done" =>
    /\ Len(entries) = Len(Sources)
    /\ \A i \in DOMAIN entries : /\ entries[i].length = Size[Sources[i]]
                                /\ NamesOf(Text[Sources[i]], entries[i].path)
=============================================================================
