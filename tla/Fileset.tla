------------------------------ MODULE Fileset ------------------------------
(***************************************************************************)
(* The files of a torrent: pieces laid over them, written and read back    *)
(* (segmenter.c), and what ctx_loadfile() finds of them when btget starts  *)
(* again.  The byte of an address is the address; Junk is any other.       *)
(***************************************************************************)
EXTENDS Integers, SequencesExt

CONSTANTS
  Lens, PieceLen,  \* lengths of the files in order, of a piece
  Harms,           \* what may happen to the files while btget is down: "delete", "cut", "spoil"
  MaxHarms         \* bound

FilesetAssumption == PieceLen \in Nat \ {0} /\ Lens \in Seq(Nat) /\ Lens # <<>>

Files == DOMAIN Lens
StartOf(f) ==
  LET start[g \in 1..f] == IF g = 1 THEN 0 ELSE start[g - 1] + Lens[g - 1]
  IN start[f]
TSize == StartOf(Len(Lens) + 1)
NPieces == (TSize + PieceLen - 1) \div PieceLen
FilePieces == 0..NPieces-1
Junk == -1

VARIABLES
  disk,      \* [there, data] of each file
  fs,        \* completed, requested, interested pieces, bytes left, errno
  running, harms

vars == <<disk, fs, running, harms>>

Init ==
  /\ disk = [f \in Files |-> [there |-> FALSE, data |-> <<>>]]
  /\ fs = [completed |-> {}, requested |-> {}, interested |-> {}, left |-> 0, errno |-> "none"]
  /\ running = FALSE /\ harms = 0

-----------------------------------------------------------------------------

Addr(piece) == piece * PieceLen

PieceLength(piece) ==
  IF piece = NPieces - 1 /\ TSize % PieceLen # 0 THEN TSize % PieceLen ELSE PieceLen

(* The files the code takes to hold some of len bytes from addr on: also    *)
(* the one that ends there.                                                 *)
Holds(f, addr, len) == StartOf(f) + Lens[f] >= addr /\ StartOf(f) < addr + len

(* seg_findFile: the first of them; it aborts if there is none. *)
FindFile(piece) == Min({f \in Files : Holds(f, Addr(piece), PieceLength(piece))})

Least(m, n) == IF m < n THEN m ELSE n
Most(m, n) == IF m > n THEN m ELSE n

(* Where in the buffer, and where in the file, the two overlap.             *)
PartOf(f, addr, len) ==
  LET fpos == Most(addr - StartOf(f), 0)
      beg == Most(StartOf(f) - addr, 0)
  IN [beg |-> beg, fpos |-> fpos, len |-> Least(Lens[f] - fpos, len - beg)]

Overwrite(data, fpos, new) ==  \* lseek() beyond the end leaves a hole
  [i \in 1..Most(Len(data), IF new = <<>> THEN 0 ELSE fpos + Len(new)) |->
     IF i > fpos /\ i <= fpos + Len(new) THEN new[i - fpos]
     ELSE IF i <= Len(data) THEN data[i] ELSE Junk]

Right(addr, len) == [i \in 1..len |-> addr + i - 1]

(* seg_write, up to the last of `upto` files. *)
Written(d, piece, upto) ==
  [f \in Files |->
     IF ~Holds(f, Addr(piece), PieceLength(piece)) \/ f > upto THEN d[f]
     ELSE LET p == PartOf(f, Addr(piece), PieceLength(piece)) IN
          [there |-> TRUE,
           data |-> Overwrite(d[f].data, p.fpos,
                              SubSeq(Right(Addr(piece), PieceLength(piece)), p.beg + 1, p.beg + p.len))]]

(* seg_readbuf: the bytes, and whether all could be had; a missing file and *)
(* one too short end it.                                                    *)
ReadBuf(d, addr, len) ==
  LET held == {f \in Files : Holds(f, addr, len)}
      absent == {f \in held : ~d[f].there}
      short == {f \in held : LET p == PartOf(f, addr, len) IN Len(d[f].data) < p.fpos + p.len /\ p.len > 0}
      read(i) == {f \in held : LET p == PartOf(f, addr, len) IN i > p.beg /\ i <= p.beg + p.len}
      byte(i) == LET f == Max(read(i)) p == PartOf(f, addr, len) IN d[f].data[p.fpos + i - p.beg]
  IN IF absent \cup short # {}
     THEN [ok |-> FALSE, buf |-> <<>>, enoent |-> Min(absent \cup short) \in absent]
     ELSE [ok |-> TRUE, enoent |-> FALSE,
           buf |-> [i \in 1..len |-> IF read(i) = {} THEN Junk ELSE byte(i)]]

-----------------------------------------------------------------------------
(* The program.                                                             *)

(* The last block of a piece has come in, and its hash is right. *)
Finish(piece) ==
  /\ running /\ piece \in fs.interested /\ piece \notin fs.completed
  /\ disk' = Written(disk, piece, Len(Lens))
  /\ fs' = [fs EXCEPT !.completed = @ \cup {piece}, !.requested = @ \cup {piece},
                      !.interested = @ \ {piece}, !.left = @ - PieceLength(piece)]
  /\ UNCHANGED <<running, harms>>

(* btget ends, or dies between the files of a piece. *)
Stop ==
  /\ running /\ running' = FALSE
  /\ \/ UNCHANGED disk
     \/ \E piece \in fs.interested \ fs.completed, f \in Files : disk' = Written(disk, piece, f)
  /\ UNCHANGED <<fs, harms>>

Harm(f) ==
  /\ ~running /\ disk[f].there /\ harms < MaxHarms /\ harms' = harms + 1
  /\ \/ "delete" \in Harms /\ disk' = [disk EXCEPT ![f] = [there |-> FALSE, data |-> <<>>]]
     \/ "cut" \in Harms /\ disk[f].data # <<>> /\ disk' = [disk EXCEPT ![f].data = Front(@)]
     \/ "spoil" \in Harms /\ \E i \in DOMAIN disk[f].data : disk' = [disk EXCEPT ![f].data[i] = Junk]
  /\ UNCHANGED <<fs, running>>

(* Mutant: a file that ends too soon is skipped as a missing one. *)
ReviewSkips(S, piece) ==
  LET r == ReadBuf(disk, Addr(piece), PieceLength(piece))
      f == FindFile(piece)
  IN IF piece < S.next THEN S
     ELSE IF ~r.ok THEN [S EXCEPT !.next = Most(@, (StartOf(f) + Lens[f]) \div PieceLen + 1)]
     ELSE IF r.buf # Right(Addr(piece), PieceLength(piece)) THEN S
     ELSE [S EXCEPT !.completed = @ \cup {piece}, !.requested = @ \cup {piece},
                    !.interested = @ \ {piece}, !.left = @ - PieceLength(piece)]

(* One turn of ctx_loadfile()'s loop.  When errno says that a file is not   *)
(* there, and it may say so from before, the pieces of the first file are   *)
(* passed over, with the one the next file begins in.                       *)
Review(S, piece) ==
  LET r == ReadBuf(disk, Addr(piece), PieceLength(piece))
      errno == IF r.enoent THEN "ENOENT" ELSE S.errno
      f == FindFile(piece)
  IN IF piece < S.next THEN S
     ELSE IF ~r.ok
     THEN [S EXCEPT !.errno = errno,
                    !.next = IF errno = "ENOENT" /\ (StartOf(f) + Lens[f]) \div PieceLen > piece
                             THEN (StartOf(f) + Lens[f]) \div PieceLen + 1 ELSE @]
     ELSE IF r.buf # Right(Addr(piece), PieceLength(piece)) THEN S
     ELSE [S EXCEPT !.completed = @ \cup {piece}, !.requested = @ \cup {piece},
                    !.interested = @ \ {piece}, !.left = @ - PieceLength(piece)]

(* ctx_loadfile; errno is what some call before left. *)
Load(errno) ==
  /\ ~running /\ running' = TRUE
  /\ LET S[n \in 0..NPieces] ==
           IF n = 0 THEN [completed |-> {}, requested |-> {}, interested |-> FilePieces,
                          left |-> TSize, errno |-> errno, next |-> 0]
           ELSE Review(S[n - 1], n - 1)
     IN fs' = [n \in DOMAIN fs |-> S[NPieces][n]]
  /\ UNCHANGED <<disk, harms>>

Touched(f) == (StartOf(f) \div PieceLen)..((StartOf(f) + Lens[f] - 1) \div PieceLen)

(* seg_markFile: only the pieces of some files are wanted, complete or not. *)
MarkFile(wanted) ==
  /\ running
  /\ fs' = [fs EXCEPT !.interested = UNION {Touched(f) : f \in wanted}]
  /\ UNCHANGED <<disk, running, harms>>

Next ==
  \/ \E piece \in FilePieces : Finish(piece)
  \/ Stop \/ \E f \in Files : Harm(f)
  \/ \E errno \in {"none", "ENOENT"} : Load(errno)
  \/ \E wanted \in SUBSET Files : wanted # {} /\ MarkFile(wanted)

Spec == Init /\ [][Next]_vars

-----------------------------------------------------------------------------

(* The variables keep their types. *)
TypeOK ==
  /\ \A f \in Files : disk[f].data \in Seq(-1..TSize-1) /\ Len(disk[f].data) <= Lens[f]
  /\ fs.completed \subseteq fs.requested /\ fs.requested \subseteq FilePieces /\ fs.interested \subseteq FilePieces
  /\ fs.left \in 0..TSize

(* Any block of a complete piece is read back as it was sent, across files  *)
(* of any length, whatever was written next to it, and after a start over   *)
(* files that were deleted, cut or spoilt.                                  *)
ReadsBack ==
  running => \A piece \in fs.completed : \A start \in 0..PieceLength(piece)-1 :
    \A len \in 1..PieceLength(piece)-start :
      LET r == ReadBuf(disk, Addr(piece) + start, len)
      IN r.ok /\ r.buf = Right(Addr(piece) + start, len)

(* What the tracker is told is left is what is not complete. *)
LeftRight ==
  running =>
    LET left[n \in 0..NPieces] ==
          IF n = 0 THEN 0
          ELSE left[n - 1] + IF n - 1 \in fs.completed THEN 0 ELSE PieceLength(n - 1)
    IN fs.left = left[NPieces]

(* A start over files that are all there, with no error left from before,   *)
(* keeps every piece that is right: none is downloaded again.               *)
RightKept ==
  ~running /\ running' /\ (\A f \in Files : disk[f].there) /\ fs'.errno # "ENOENT"
   => \A piece \in FilePieces :
        LET r == ReadBuf(disk, Addr(piece), PieceLength(piece))
        IN r.ok /\ r.buf = Right(Addr(piece), PieceLength(piece)) => piece \in fs'.completed
=============================================================================
