------------------------------ MODULE PlateText ------------------------------
(***************************************************************************)
(* From the images of one track to the text that is stored: what           *)
(* PaddleOcrEngine.read_text makes of each crop (parse the lines, extract  *)
(* the plate, normalise its characters), the vote over the reads, the      *)
(* correction and the format test of CentralOcrWorker._process_payload.    *)
(*                                                                         *)
(* A text is a sequence of one-character strings, because every property   *)
(* here is about characters. What the OCR library sees in an image is      *)
(* chosen from Seen(plate).                                                *)
(***************************************************************************)
EXTENDS Integers, Sequences, FiniteSets, FiniteSetsExt, SequencesExt

CONSTANTS Plates,        \* the registrations on the vehicles
          OcrConfidences,   \* of the OCR library, in percent
          MaxCrops       \* bound: TrackManager(max_crops=...)

Digit  == {"0","1","2","3","4","5","6","7","8","9"}
Letter == {"A","B","C","D","E","F","G","H","I","J","K","L","M","N","O","P","Q","R",
           "S","T","U","V","W","X","Y","Z"}

ASSUME PlateTextAssumption ==
  /\ \A p \in Plates : p \in Seq(Digit \cup Letter) /\ Len(p) \in 6..11
  /\ OcrConfidences \subseteq 1..100
  /\ MaxCrops \in Nat \ {0}

\* The sum of a list of numbers.
Total(s) ==
  LET sum[n \in 0..Len(s)] == IF n = 0 THEN 0 ELSE sum[n - 1] + s[n]
  IN  sum[Len(s)]

-----------------------------------------------------------------------------
(* indian_plate_formatter.py *)

INDIAN_STATE_CODES ==
  {<<"A","N">>,<<"A","P">>,<<"A","R">>,<<"A","S">>,<<"B","R">>,<<"C","G">>,<<"C","H">>,
   <<"D","D">>,<<"D","L">>,<<"G","A">>,<<"G","J">>,<<"H","P">>,<<"H","R">>,<<"J","H">>,
   <<"J","K">>,<<"K","A">>,<<"K","L">>,<<"L","A">>,<<"L","D">>,<<"M","H">>,<<"M","L">>,
   <<"M","N">>,<<"M","P">>,<<"M","Z">>,<<"N","L">>,<<"O","D">>,<<"P","B">>,<<"P","Y">>,
   <<"R","J">>,<<"S","K">>,<<"T","N">>,<<"T","R">>,<<"T","S">>,<<"U","K">>,<<"U","P">>,
   <<"W","B">>}

LClass == Letter \cup {"0","1","2","4","5","6","7","8"}
DClass == Digit \cup {"O","I","S","B","Z","G","D","Q","J","L","T","A","C"}

DIGIT_FIXES ==
  [c \in {"O","D","Q","C","I","J","L","Z","A","S","G","T","B"} |->
     CASE c \in {"O","D","Q","C"} -> "0" [] c \in {"I","J","L"} -> "1" [] c = "Z" -> "2"
       [] c = "A" -> "4" [] c = "S" -> "5" [] c = "G" -> "6" [] c = "T" -> "7" [] c = "B" -> "8"]

LETTER_FIXES ==
  [c \in {"0","1","2","4","5","6","7","8"} |->
     CASE c = "0" -> "O" [] c = "1" -> "I" [] c = "2" -> "Z" [] c = "4" -> "A" [] c = "5" -> "S"
       [] c = "6" -> "G" [] c = "7" -> "T" [] c = "8" -> "B"]

Fix(table, c) == IF c \in DOMAIN table THEN table[c] ELSE c

\* The letters a character of a state code may stand for, in the order they are tried.
StateOptions(c) ==
  <<c>> \o (IF c \in DOMAIN LETTER_FIXES THEN <<LETTER_FIXES[c]>> ELSE <<>>)
        \o (CASE c = "0" -> <<"D">> [] c = "1" -> <<"J">> [] c = "5" -> <<"G">> [] OTHER -> <<>>)

\* The first pair of options that is a state code, else the plain letter fixes.
FixStateCode(c1, c2) ==
  LET o1 == StateOptions(c1)
      o2 == StateOptions(c2)
      real == {ij \in (DOMAIN o1) \X (DOMAIN o2) : <<o1[ij[1]], o2[ij[2]]>> \in INDIAN_STATE_CODES}
      first == CHOOSE ij \in real : \A kl \in real :
                 ij[1] < kl[1] \/ (ij[1] = kl[1] /\ ij[2] <= kl[2])
  IN  IF real = {} THEN <<Fix(LETTER_FIXES, c1), Fix(LETTER_FIXES, c2)>>
                   ELSE <<o1[first[1]], o2[first[2]]>>

AllIn(s, from, to, class) == \A i \in from..to : s[i] \in class

\* Length of _PLATE_REGEX's match at position b of s (0: none): the series takes as many
\* characters as leave a digit for the number, then the number takes as many as it can.
PlateLength(s, b) ==
  LET end == Len(s) - b + 1
      series == {k \in 0..3 : /\ 5 + k <= end
                              /\ AllIn(s, b + 4, b + 3 + k, LClass)
                              /\ s[b + 4 + k] \in DClass}
      k == Max(series)
      number == {m \in 1..4 : 4 + k + m <= end /\ AllIn(s, b + 4 + k, b + 3 + k + m, DClass)}
  IN  IF /\ end >= 5 
         /\ AllIn(s, b, b + 1, LClass) /\ AllIn(s, b + 2, b + 3, DClass) /\ series # {}
      THEN 4 + k + Max(number) ELSE 0

\* The same for _BH_REGEX, YY BH #### X or XX.
BhLength(s, b) ==
  LET end == Len(s) - b + 1
  IN  IF /\ end >= 9
         /\ AllIn(s, b, b + 1, Digit) /\ s[b + 2] = "B" /\ s[b + 3] = "H"
         /\ AllIn(s, b + 4, b + 7, Digit) /\ s[b + 8] \in Letter
      THEN IF end >= 10 /\ s[b + 9] \in Letter THEN 10 ELSE 9
      ELSE 0

extract_indian_plate(s) ==
  LET bh == {b \in DOMAIN s : BhLength(s, b) > 0}
      valid == {b \in DOMAIN s : PlateLength(s, b) > 0 
                                 /\ FixStateCode(s[b], s[b + 1]) \in INDIAN_STATE_CODES}
      longest == {b \in valid : \A c \in valid : PlateLength(s, b) >= PlateLength(s, c)}
  IN  IF Len(s) < 6 THEN <<>>
      ELSE IF bh # {} THEN SubSeq(s, Min(bh), Min(bh) + BhLength(s, Min(bh)) - 1)
      ELSE IF valid = {} \/ PlateLength(s, Min(longest)) < 6 THEN <<>>
      ELSE SubSeq(s, Min(longest), Min(longest) + PlateLength(s, Min(longest)) - 1)

\* Mutant of RegStart: the whole rest of the plate is scanned, not its last four characters.
MutScanAll(s, table) ==
  LET run == {p \in 5..Len(s) : AllIn(s, p, Len(s), Digit \cup DOMAIN table)}
  IN  Max({6, IF run = {} THEN Len(s) + 1 ELSE Min(run)})

\* Where the registration number starts: the run of digits, and of letters that table turns
\* into digits, in the last four characters, but never before the sixth character.
RegStart(s, table) ==
  LET n == Len(s)
      run == {p \in Max({5, n - 3})..n : AllIn(s, p, n, Digit \cup DOMAIN table)}
  IN  Max({6, IF run = {} THEN n + 1 ELSE Min(run)})

normalize_plate_chars(s) ==
  LET state == FixStateCode(s[1], s[2])
      reg == RegStart(s, DIGIT_FIXES)
  IN  IF Len(s) < 6 \/ BhLength(s, 1) > 0 THEN s
      ELSE [i \in DOMAIN s |-> CASE i <= 2 -> state[i]
                                 [] i \in 3..4 -> Fix(DIGIT_FIXES, s[i])
                                 [] i >= 5 /\ i < reg -> IF s[i] \in {"O", "0"} THEN "D"
                                                         ELSE Fix(LETTER_FIXES, s[i])
                                 [] OTHER -> Fix(DIGIT_FIXES, s[i])]

-----------------------------------------------------------------------------
(* plate_corrector.py, whose tables are not the formatter's *)

letter_to_number ==
  [c \in {"O","Q","D","I","L","T","Z","E","A","S","G","B"} |->
     CASE c \in {"O","Q","D"} -> "0" [] c \in {"I","L","T"} -> "1" [] c = "Z" -> "2"
       [] c = "E" -> "3" [] c = "A" -> "4" [] c = "S" -> "5" [] c = "G" -> "6" [] c = "B" -> "8"]

number_to_letter ==
  [c \in Digit |->
     CASE c = "0" -> "O" [] c = "1" -> "I" [] c = "2" -> "Z" [] c = "3" -> "E" [] c = "4" -> "A"
       [] c = "5" -> "S" [] c = "6" -> "G" [] c = "7" -> "T" [] c = "8" -> "B" [] c = "9" -> "P"]

LooselyBH(s) == Len(s) >= 8 /\ s[3] \in {"B", "8"} /\ s[4] \in {"H", "4", "N", "M"}

correct(s) ==
  LET reg == RegStart(s, letter_to_number)
      number(i) == Fix(letter_to_number, s[i])
      letter(i) == Fix(number_to_letter, s[i])
  IN  IF Len(s) \notin 5..11 THEN s
      ELSE IF LooselyBH(s)
      THEN [i \in DOMAIN s |-> CASE i = 3 -> "B" [] i = 4 -> "H" 
                                 [] i \in {1, 2} \cup 5..8 -> number(i) [] OTHER -> letter(i)]
      ELSE [i \in DOMAIN s |-> IF i <= 2 \/ (i >= 5 /\ i < reg) THEN letter(i) ELSE number(i)]

\* The format test before a detection is stored.
IsValidRto(s) ==
  \/ \E d \in 1..2, k \in 0..3, m \in 1..4 :
       /\ Len(s) = 2 + d + k + m
       /\ AllIn(s, 1, 2, Letter) /\ AllIn(s, 3, 2 + d, Digit)
       /\ AllIn(s, 3 + d, 2 + d + k, Letter) /\ AllIn(s, 3 + d + k, Len(s), Digit)
  \/ BhLength(s, 1) = Len(s) /\ s # <<>>

-----------------------------------------------------------------------------
(* paddle_ocr_engine.py *)

\* Python's round of n/15 for n in half pixels: ties go to the even row.
Row(n) == LET q == n \div 30
              r == n % 30
          IN  IF r < 15 \/ (r = 15 /\ q % 2 = 0) THEN q ELSE q + 1

\* Mutant of ReadBefore: lines in the order of their left edges alone.
MutLeftFirst(a, b) == a.cx < b.cx

ReadBefore(a, b) == Row(a.cy) < Row(b.cy) \/ (Row(a.cy) = Row(b.cy) /\ a.cx < b.cx)

\* Does the stable sort put line i before line j?
Precedes(lines, i, j) ==
  ReadBefore(lines[i], lines[j]) \/ (~ReadBefore(lines[j], lines[i]) /\ i < j)

FirstLine(lines, left) == CHOOSE i \in left : \A j \in left \ {i} : Precedes(lines, i, j)

\* The lines whose indices are kept, sorted.
InOrder(lines, kept) ==
  LET n == Cardinality(kept)
      left[k \in 0..n] == IF k = 0 THEN kept ELSE left[k - 1] \ {FirstLine(lines, left[k - 1])}
  IN  [k \in 1..n |-> lines[FirstLine(lines, left[k - 1])]]

Stamps == {<<"I","N","D">>, <<"I","N","D","I","A">>, <<"I","N">>}

\* None is the read with an empty text.
None == [text |-> <<>>, conf |-> 0]

parse_ocr_result(lines) ==
  LET kept == {i \in DOMAIN lines : lines[i].text # <<>> /\ lines[i].text \notin Stamps}
      valid == InOrder(lines, kept)
  IN  IF valid = <<>> THEN None
      ELSE [text |-> FlattenSeq([i \in DOMAIN valid |-> valid[i].text]),
            conf |-> Total([i \in DOMAIN valid |-> valid[i].conf]) \div Len(valid)]

\* Mutant of ReadImage: the plate is not normalised.
MutNotNormalised(lines) ==
  LET parsed == parse_ocr_result(lines)
      plate == extract_indian_plate(parsed.text)
  IN  IF plate = <<>> THEN None ELSE [text |-> plate, conf |-> parsed.conf]

ReadImage(lines) ==
  LET parsed == parse_ocr_result(lines)
      plate == extract_indian_plate(parsed.text)
  IN  IF parsed.text = <<>> \/ plate = <<>> THEN None
      ELSE [text |-> normalize_plate_chars(plate), conf |-> parsed.conf]

\* Of the reads of the preprocessed image and, for a small crop, of the plain upscaled one:
\* the first confident one, else the better one.
read_text(all) ==
  LET sure == {i \in DOMAIN all : all[i].conf > 65}
      best == {i \in DOMAIN all : \A j \in DOMAIN all : all[i].conf >= all[j].conf}
  IN  IF sure # {} THEN all[Min(sure)] ELSE all[Min(best)]

-----------------------------------------------------------------------------
(* detection_pipeline.py *)

\* Mutant of vote_consensus: the last read at each place of the first read's length.
MutLastRead(reads) ==
  LET same == {i \in DOMAIN reads : Len(reads[i].text) = Len(reads[1].text)}
  IN  reads[Max(same)].text

\* The commonest length, the first seen of them; at each place the heaviest character, the
\* first seen of them.
vote_consensus(reads) ==
  LET OfLength(n) == {i \in DOMAIN reads : Len(reads[i].text) = n}
      dominant == Min({i \in DOMAIN reads : \A j \in DOMAIN reads :
                         Cardinality(OfLength(Len(reads[i].text))) 
                           >= Cardinality(OfLength(Len(reads[j].text)))})
      filtered == OfLength(Len(reads[dominant].text))
      Weight(pos, c) == Total([i \in DOMAIN reads |->
                          IF i \in filtered /\ reads[i].text[pos] = c THEN reads[i].conf ELSE 0])
      Best(pos) == Min({i \in filtered : \A j \in filtered :
                     Weight(pos, reads[i].text[pos]) >= Weight(pos, reads[j].text[pos])})
  IN  [pos \in 1..Len(reads[dominant].text) |-> reads[Best(pos)].text[pos]]

-----------------------------------------------------------------------------
(* What the OCR library may return for an image of a plate (external). Every line of a result *)
(* has the centre of its box, cy in half pixels. *)

Stamp == <<"I","N","D">>

Alike == {<<"0","O">>, <<"1","I">>, <<"5","S">>, <<"8","B">>}
LooksLike(c) == {d \in Digit \cup Letter : <<c, d>> \in Alike \/ <<d, c>> \in Alike}

Line(text, cy, cx, conf) == [text |-> text, cy |-> cy, cx |-> cx, conf |-> conf]

\* The plate as it is, on one line or on two, the second of which the library may give first.
Exact(p, conf) ==
  LET top == Line(SubSeq(p, 1, 4), 20, 9, conf)
      bottom == Line(SubSeq(p, 5, Len(p)), 80, 5, conf)
  IN  {<<Line(p, 40, 30, conf)>>, <<top, bottom>>, <<bottom, top>>}

\* The stamp beside the plate, or one character taken for one it looks like.
Tolerable(p, conf) ==
  {<<Line(Stamp, 40, 2, conf), Line(p, 40, 30, conf)>>} \cup (IF BhLength(p, 1) > 0 THEN {} 
          ELSE UNION {{<<Line([p EXCEPT ![i] = c], 40, 30, conf)>> : c \in LooksLike(p[i])} :
                        i \in DOMAIN p})

\* The stamp and the plate as one line.
Glued(p, conf) == {<<Line(Stamp \o p, 40, 20, conf)>>}

\* A cut or wrong reading, or none.
Noisy(p, conf) ==
  {<<>>, <<Line(SubSeq(p, 1, Len(p) - 1), 40, 25, conf)>>,
   <<Line([p EXCEPT ![Len(p)] = "7"], 40, 30, conf)>>}

Kinds == {"exact", "tolerable", "glued", "noisy"}
Seen(p, how, conf) == CASE how = "exact" -> Exact(p, conf)
                        [] how = "tolerable" -> Tolerable(p, conf)
                        [] how = "glued" -> Glued(p, conf)
                        [] how = "noisy" -> Noisy(p, conf)

\* What the engine makes of the images of a plate.
Readings == [ph \in Plates \X Kinds |->
               {ReadImage(lines) : lines \in UNION {Seen(ph[1], ph[2], c) : c \in OcrConfidences}}]

-----------------------------------------------------------------------------
VARIABLES plate,    \* ghost: what is on the vehicle
          looks,    \* ghost: the kinds of images so far
          crops,    \* of the track, read so far
          reads, voted, stored,
          stage     \* "read" or "done"

textVars == <<plate, looks, crops, reads, voted, stored, stage>>

TextInit == /\ plate \in Plates
        /\ looks = {} /\ crops = 0
        /\ reads = <<>> /\ voted = <<>> /\ stored = <<>> /\ stage = "read"

\* One crop: one image, or two when it is small (h < 64 or w < 180).
ReadCrop ==
  /\ stage = "read" /\ crops < MaxCrops
  /\ crops' = crops + 1
  /\ \E how \in Kinds : \E first, second \in Readings[<<plate, how>>] :
       /\ looks' = looks \cup {how}
       /\ \E r \in {read_text(<<first>>), read_text(<<first, second>>)} :
            reads' = IF r.text = <<>> THEN reads ELSE Append(reads, r)
  /\ UNCHANGED <<plate, voted, stored, stage>>

\* The vote, the correction and the format test. The cooldown is OcrWorkers' business.
Conclude ==
  /\ stage = "read" /\ crops > 0
  /\ stage' = "done"
  /\ voted' = IF reads = <<>> THEN <<>> ELSE vote_consensus(reads)
  /\ stored' = IF voted' # <<>> /\ IsValidRto(correct(voted')) THEN correct(voted') ELSE <<>>
  /\ UNCHANGED <<plate, looks, crops, reads>>

TextNext == ReadCrop \/ Conclude

TextSpec == TextInit /\ [][TextNext]_textVars

-----------------------------------------------------------------------------
\* Registrations of the kind the whole path is good for: not those of a district 84, which
\* correct takes for a misread BH, nor those with a series O, a short number or none.
Ordinary(p) ==
  \/ BhLength(p, 1) = Len(p)
  \/ \E k \in 1..3 : /\ Len(p) = 8 + k
                     /\ <<p[1], p[2]>> \in INDIAN_STATE_CODES
                     /\ AllIn(p, 3, 4, Digit) /\ AllIn(p, 5, 4 + k, Letter \ {"O"})
                     /\ AllIn(p, 5 + k, Len(p), Digit)
                     /\ <<p[3], p[4]>> # <<"8", "4">>

\* An ordinary registration is stored as itself however it was photographed: on one line or
\* two, with the country stamp, with a character mistaken for one it looks like, each
\* correction made at most where it belongs. The exception: behind a stamp glued to it, a
\* plate that starts with D or L is misread, for "DDL01..." is a longer match than "DL01...".
OrdinaryPlatesAreKept ==
  /\ stage = "done" /\ "noisy" \notin looks /\ Ordinary(plate)
  /\ ("glued" \in looks => plate[1] \notin {"D", "L"})
  => stored = plate

\* Reads that agree and outweigh all others, in number and in confidence, are the vote:
\* no mixture of characters of different reads can win against them.
MajorityWins ==
  stage = "done" =>
    \A i \in DOMAIN reads :
      LET same == {j \in DOMAIN reads : reads[j].text = reads[i].text}
          Conf(S) == Total([j \in DOMAIN reads |-> IF j \in S THEN reads[j].conf ELSE 0])
      IN  2 * Cardinality(same) > Len(reads) /\ 2 * Conf(same) > Conf(DOMAIN reads)
            => voted = reads[i].text

\* A C or J before a number of less than four digits: the formatter takes it for a digit of
\* the number; the corrector, which knows an E there and no C or J, does not.
TablesDiffer(s) ==
  \E p \in 6..(Len(s) - 1) : p > Len(s) - 4 /\ s[p] \in {"C", "J"} /\ s[p + 1] \in Digit

\* The text comes back unchanged from reading it without error and from correcting it.
Stable(s) ==
  extract_indian_plate(s) = s /\ normalize_plate_chars(s) = s /\ correct(s) = s

\* However an image was misread: what is stored of a vote that one read won at every place is
\* a fixed point, so the same plate read without error the next time has the same text, hence
\* the same cooldown key and the same registry entry. The exceptions: the two tables' C, J and
\* E, and votes that mix the characters of several reads.
StoredIsStable ==
  /\ stored # <<>>
  /\ \E i \in DOMAIN reads : reads[i].text = voted
  /\ ~TablesDiffer(stored)
  => Stable(stored)

=============================================================================
