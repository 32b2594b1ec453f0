--------------------------------- MODULE Patch ---------------------------------
(***************************************************************************)
(* The patches beside a game: content_patch applies them in the order of   *)
(* their names, each to what the ones before it made, and gives the core   *)
(* the result, or the game as it is when one of them cannot be applied.    *)
(* patch() runs over an IPS or BPS patch twice, first for the size of the  *)
(* result.                                                                 *)
(*                                                                         *)
(* A patch is a sequence of cells.  A byte of the game is one cell, and so *)
(* is each number, whatever bytes it takes: the offsets and lengths of IPS *)
(* with their fixed widths, those of BPS as bps_decode reads them.         *)
(***************************************************************************)
EXTENDS Integers, Sequences

CONSTANTS
  Dumps,       \* the games there may be: sequences of bytes
  Bytes,
  MaxEnd,      \* bound: the longest result
  MaxRun,      \* bound: the cells one record writes
  MaxRecords,  \* bound: the records of each patch, a sequence with one number for each patch
  None

EOF == -1

\* What the constants are (assumed by MCPicoarch).
PatchAssumption ==
  /\ 0 \in Bytes /\ Bytes \subseteq Nat /\ None \notin Seq(Nat)
  /\ \A d \in Dumps : d \in Seq(Bytes) /\ Len(d) \in 1 .. MaxEnd
  /\ MaxRun \in Nat \ {0}

VARIABLES
  game,      \* what was read from the game's file
  patches,   \* the patch files, in the order of their names
  draft,     \* the patch that its author is working on, or None
  intended,  \* history: what the patches were made to give, or None when one of them is no good
  pass,      \* author, file (content_patch's loop), size, write (patch()), or done
  in, out,   \* the source and the result of the current patch
  out_size, i,
  written, src_rel_offset, dst_rel_offset,
  k,         \* the number of the current patch
  given      \* what the core gets

author == <<game, patches, draft, intended>>
bps    == <<written, src_rel_offset, dst_rel_offset>>
vars   == <<author, pass, in, out, out_size, i, bps, k, given>>

AtMost(n, max) == IF n > max THEN max ELSE n
AtLeast(n, min) == IF n < min THEN min ELSE n
At(s, offset, length) == SubSeq(s, offset + 1, offset + length)
Cell(s, n) == s[n + 1]

Zeros(s, n) == [j \in 1 .. n |-> IF j <= Len(s) THEN s[j] ELSE 0]
------------------------------------------------------------------------------
(* Authors.  What a record is meant to do is said here, from the two formats. *)

Runs == UNION {[1 .. n -> Bytes] : n \in 1 .. MaxRun}

\* The bytes of run at an offset of s, which grows to hold them.
Overlay(s, offset, run) ==
  [j \in 1 .. AtLeast(Len(s), offset + Len(run)) |->
     IF j - offset \in DOMAIN run THEN run[j - offset] ELSE Zeros(s, j)[j]]

\* A copy of s from an offset, which may run into what it writes.
Repeat(s, offset, n) == [j \in 1 .. n |-> s[offset + 1 + ((j - 1) % (Len(s) - offset))]]

\* SourceCopy and TargetCopy give their offset as a step from where the last one ended.
Step(from, to) == IF to < from THEN 2 * (from - to) + 1 ELSE 2 * (to - from)
Code(mode, n)  == 4 * (n - 1) + mode

\* History: where a record ends, and what the records up to it make of the source.
Mark(at, target, src, dst) == [at |-> at, target |-> target, src |-> src, dst |-> dst]

Begin(format, source) ==
  /\ pass = "author" /\ draft = None /\ Len(patches) < Len(MaxRecords)
  /\ LET target == IF format = "IPS" THEN source ELSE <<>>
     IN  draft' = [format |-> format, cells |-> <<>>, source |-> source, target |-> target,
                   src |-> 0, dst |-> 0, end |-> 0, marks |-> <<Mark(0, target, 0, 0)>>]
  /\ UNCHANGED <<game, patches, intended, pass, in, out, out_size, i, bps, k, given>>

\* A patch is made for what the ones before it give; a BPS patch may be for another dump.
BeginIps == intended # None /\ Begin("IPS", intended)
BeginBps == intended # None /\ \E s \in Dumps \cup {intended} : Begin("BPS", s)

Adds(d, cells, target) ==
  /\ Len(d.marks) <= MaxRecords[Len(patches) + 1] /\ Len(target) <= MaxEnd
  /\ draft' = [d EXCEPT !.cells = @ \o cells, !.target = target,
                        !.marks = Append(@, Mark(Len(d.cells) + Len(cells), target, d.src, d.dst))]
  /\ UNCHANGED <<game, patches, intended, pass, in, out, out_size, i, bps, k, given>>

Ends(d, offset, n) == [d EXCEPT !.end = AtLeast(@, offset + n)]

AddIps ==
  /\ draft # None /\ draft.format = "IPS"
  /\ \E offset \in 0 .. MaxEnd - 1 :
       \/ \E run \in Runs : Adds(Ends(draft, offset, Len(run)), <<offset, Len(run)>> \o run,
                                 Overlay(draft.target, offset, run))
       \/ \E n \in 1 .. MaxRun, b \in Bytes :
            Adds(Ends(draft, offset, n), <<offset, 0, n, b>>,
                 Overlay(draft.target, offset, [j \in 1 .. n |-> b]))

AddBps ==
  /\ draft # None /\ draft.format = "BPS"
  /\ LET s == draft.source
         t == draft.target
     IN  \E n \in 1 .. MaxRun :
           \/ Len(t) + n <= Len(s) /\ Adds(draft, <<Code(0, n)>>, t \o At(s, Len(t), n))
           \/ \E run \in [1 .. n -> Bytes] : Adds(draft, <<Code(1, n)>> \o run, t \o run)
           \/ \E offset \in 0 .. Len(s) - n :
                Adds([draft EXCEPT !.src = offset + n],
                     <<Code(2, n), Step(draft.src, offset)>>, t \o At(s, offset, n))
           \/ \E offset \in 0 .. Len(t) - 1 :
                Adds([draft EXCEPT !.dst = offset + n],
                     <<Code(3, n), Step(draft.dst, offset)>>, t \o Repeat(t, offset, n))

Finish(patch, good) ==
  /\ patches' = Append(patches, patch) /\ draft' = None
  /\ intended' = IF good THEN patch.target ELSE None
  /\ UNCHANGED <<game, pass, in, out, out_size, i, bps, k, given>>

\* An IPS patch ends with EOF; the size of a shorter result may follow.  A download may stop
\* before EOF.
FinishIps ==
  /\ draft # None /\ draft.format = "IPS"
  /\ \/ Finish([draft EXCEPT !.cells = Append(@, EOF)], TRUE)
     \/ \E size \in AtLeast(draft.end, 1) .. Len(draft.target) - 1 :
          Finish([draft EXCEPT !.cells = @ \o <<EOF, size>>, !.target = At(@, 0, size)], TRUE)
     \/ \E n \in 0 .. Len(draft.cells) : Finish([draft EXCEPT !.cells = At(@, 0, n)], FALSE)

\* A BPS patch has both sizes, metadata (none here) and three checksums, of which the last,
\* its own, may be wrong.
FinishBps ==
  /\ draft # None /\ draft.format = "BPS" /\ draft.target # <<>>
  /\ \E intact \in BOOLEAN :
       Finish([cells |-> <<Len(draft.source), Len(draft.target), 0>> \o draft.cells,
               format |-> "BPS", source |-> draft.source, target |-> draft.target,
               intact |-> intact, marks |-> draft.marks],
              intact /\ draft.source = intended)
------------------------------------------------------------------------------
(* content_patch.                                                           *)

Current == patches[k]
Size    == Len(Current.cells)

Load ==
  /\ pass = "author" /\ draft = None /\ pass' = "file"
  /\ UNCHANGED <<author, in, out, out_size, i, bps, k, given>>

Give(data) ==
  /\ pass' = "done" /\ given' = data
  /\ in' = <<>> /\ out' = <<>> /\ out_size' = 0 /\ i' = 0
  /\ written' = 0 /\ src_rel_offset' = 0 /\ dst_rel_offset' = 0 /\ k' = 0
  /\ UNCHANGED author

\* One that fails makes content_patch give up, and the core gets the game as it is.
Fail == Give(game)

NextFile ==
  /\ pass = "file"
  /\ IF k = Len(patches)
       THEN Give(in)
       ELSE /\ pass' = "size" /\ k' = k + 1 /\ i' = 0
            /\ UNCHANGED <<author, in, out, out_size, bps, given>>
------------------------------------------------------------------------------
(* patch().                                                                 *)

\* Between the passes: room for the result, with as much of the source as fits.
Allocate(size) ==
  IF size = 0 THEN Fail
  ELSE /\ pass' = "write" /\ i' = 0 /\ out_size' = size
       /\ out' = Zeros(At(in, 0, AtMost(Len(in), size)), size)
       /\ written' = 0 /\ src_rel_offset' = 0 /\ dst_rel_offset' = 0
       /\ UNCHANGED <<author, in, k, given>>

\* Mutant of Applied: the next patch is applied to the game itself.
AppliedToGame ==
  /\ pass' = "file" /\ in' = (IF k < Len(patches) THEN game ELSE out) /\ out' = <<>>
  /\ UNCHANGED <<author, out_size, i, bps, k, given>>

\* The result is the source of the next patch; out_size stays.
Applied ==
  /\ pass' = "file" /\ in' = out /\ out' = <<>>
  /\ UNCHANGED <<author, out_size, i, bps, k, given>>
------------------------------------------------------------------------------
(* patch_ips.                                                               *)

Ips == k > 0 /\ Current.format = "IPS"

\* A size after EOF is taken for the result's.
Truncates == Size >= 2 /\ Cell(Current.cells, Size - 2) = EOF

SizeTruncated ==
  /\ pass = "size" /\ Ips /\ Truncates
  /\ Allocate(Cell(Current.cells, Size - 1))

\* The loop ends without EOF, or with a record that is longer than the patch.
RecordFits ==
  /\ i + 2 <= Size
  /\ LET len == Cell(Current.cells, i + 1)
     IN  IF len > 0 THEN i + 2 + len <= Size ELSE i + 4 <= Size

AtEOF == i < Size /\ Cell(Current.cells, i) = EOF

IpsFails ==
  /\ pass \in {"size", "write"} /\ Ips /\ ~(pass = "size" /\ Truncates)
  /\ ~AtEOF /\ ~RecordFits
  /\ Fail

IpsEnds ==
  /\ Ips /\ AtEOF
  /\ \/ pass = "size" /\ ~Truncates /\ Allocate(AtLeast(out_size, Len(in)))
     \/ pass = "write" /\ Applied

\* One record: a run of bytes, or one byte repeated.  What lies past the size is not written,
\* nor skipped.
IpsRecord ==
  /\ pass \in {"size", "write"} /\ Ips /\ ~(pass = "size" /\ Truncates)
  /\ ~AtEOF /\ RecordFits
  /\ LET offset == Cell(Current.cells, i)
         len    == Cell(Current.cells, i + 1)
         run    == IF len > 0 THEN At(Current.cells, i + 2, len)
                   ELSE [j \in 1 .. Cell(Current.cells, i + 2) |-> Cell(Current.cells, i + 3)]
         fits   == AtLeast(AtMost(Len(run), out_size - offset), 0)
     IN  IF pass = "size"
           THEN /\ out_size' = AtLeast(out_size, offset + Len(run))
                /\ i' = IF len > 0 THEN i + 2 + len ELSE i + 4
                /\ UNCHANGED out
           ELSE /\ out' = IF fits = 0 THEN out ELSE Overlay(out, offset, At(run, 0, fits))
                /\ i' = IF len > 0 THEN i + 2 + fits ELSE i + 4
                /\ UNCHANGED out_size
  /\ UNCHANGED <<author, pass, in, bps, k, given>>
------------------------------------------------------------------------------
(* patch_bps.                                                               *)

Bps == k > 0 /\ Current.format = "BPS"

SizeBps ==
  /\ pass = "size" /\ Bps
  /\ IF Cell(Current.cells, 0) # Len(in) THEN Fail ELSE Allocate(Cell(Current.cells, 1))

\* Past the sizes and the metadata.
Actions == 3 + Cell(Current.cells, 2)

Signed(n) == IF n % 2 = 1 THEN -(n \div 2) ELSE n \div 2

\* Cell by cell: what is copied from the result may have been written by the same copy.
CopyOut(from, n) == Repeat(At(out, 0, written), from, n)

BpsAction ==
  /\ pass = "write" /\ Bps
  /\ LET at == AtLeast(i, Actions)
         code == Cell(Current.cells, at)
         n    == code \div 4 + 1
         src  == src_rel_offset + Signed(Cell(Current.cells, at + 1))
         dst  == dst_rel_offset + Signed(Cell(Current.cells, at + 1))
         Writes(run, cells) == /\ out' = Overlay(out, written, run)
                               /\ written' = written + n
                               /\ i' = at + cells
     IN  /\ at < Size
         /\ \/ /\ code % 4 = 0 /\ Writes(At(in, written, n), 1)
               /\ UNCHANGED <<src_rel_offset, dst_rel_offset>>
            \/ /\ code % 4 = 1 /\ Writes(At(Current.cells, at + 1, n), 1 + n)
               /\ UNCHANGED <<src_rel_offset, dst_rel_offset>>
            \/ /\ code % 4 = 2 /\ Writes(At(in, src, n), 2)
               /\ src_rel_offset' = src + n /\ UNCHANGED dst_rel_offset
            \/ /\ code % 4 = 3 /\ Writes(CopyOut(dst, n), 2)
               /\ dst_rel_offset' = dst + n /\ UNCHANGED src_rel_offset
  /\ UNCHANGED <<author, pass, in, out_size, k, given>>

\* A checksum stands for what it is the checksum of.
BpsEnds ==
  /\ pass = "write" /\ Bps /\ AtLeast(i, Actions) >= Size
  /\ IF written = out_size /\ Current.source = in /\ Current.target = out /\ Current.intact
       THEN Applied ELSE Fail
------------------------------------------------------------------------------
Init ==
  /\ game \in Dumps /\ patches = <<>> /\ draft = None /\ intended = game
  /\ pass = "author" /\ in = game /\ out = <<>> /\ out_size = 0 /\ i = 0
  /\ written = 0 /\ src_rel_offset = 0 /\ dst_rel_offset = 0 /\ k = 0 /\ given = <<>>

Authors == BeginIps \/ BeginBps \/ AddIps \/ AddBps \/ FinishIps \/ FinishBps

Next ==
  \/ Authors
  \/ Load \/ NextFile
  \/ SizeTruncated \/ IpsFails \/ IpsEnds \/ IpsRecord
  \/ SizeBps \/ BpsAction \/ BpsEnds

Spec == Init /\ [][Next]_vars
------------------------------------------------------------------------------
\* The core gets what the authors of the patches meant, all of them applied in order, or the
\* game as it is when one of them is broken or was made for another dump: never a game
\* that is patched in part.
PatchedAsMeant ==
  pass = "done" => given = IF intended = None THEN game ELSE intended
===============================================================================
