-------------------------------- MODULE Preview --------------------------------
(* Previews (src/cclipd/preview.c): what generate_preview makes of a payload     *)
(* before it is stored, on sequences of bytes, and what a preview should be.     *)
EXTENDS Naturals, Sequences, SequencesExt

Space    == 32
Question == 63
Byte     == 0 .. 255

\* The bytes of at most n, as snprintf and the preview buffer keep them.
Cut(s, n) == SubSeq(s, 1, IF Len(s) < n THEN Len(s) ELSE n)

Slice(s, i, n) == SubSeq(s, i, i + n - 1)

-------------------------------------------------------------------------------
(* generate_text_preview.                                                       *)

\* Length of the sequence a lead byte announces, 0 for a byte that leads nothing.
SeqLen(c) == CASE c \in 192 .. 223 -> 2
               [] c \in 224 .. 239 -> 3
               [] c \in 240 .. 247 -> 4
               [] OTHER -> 0

IsContinuation(b) == b \in 128 .. 191

LeadBits(c) == CASE SeqLen(c) = 2 -> c % 32
                 [] SeqLen(c) = 3 -> c % 16
                 [] OTHER -> c % 8

\* The code point of a sequence with valid continuation bytes.
CodePoint(seq) ==
  LET point[i \in 1 .. Len(seq)] == IF i = 1 THEN LeadBits(seq[1]) ELSE point[i - 1] * 64 + (seq[i] % 64)
  IN  point[Len(seq)]

Largest(n) == CASE n = 2 -> 2047 [] n = 3 -> 65535 [] OTHER -> 1114111

\* Mutant of Smallest: overlong forms are let through.
SmallestAny(n) == 128

Smallest(n) == CASE n = 2 -> 128 [] n = 3 -> 2048 [] OTHER -> 65536

\* Neither overlong nor a surrogate.
ValidRange(n, point) == /\ point \in Smallest(n) .. Largest(n)
                        /\ point \notin 55296 .. 57343

ValidSequence(seq) == /\ \A i \in 2 .. Len(seq) : IsContinuation(seq[i])
                      /\ ValidRange(Len(seq), CodePoint(seq))

\* Whitespace is merged and control characters go.
IsControl(c) == c <= Space \/ c = 127

IsBlank(c) == c \in {9, 10, 13, Space}

\* The text put out so far, with more bytes: space says whether it ends with a space, next
\* where the loop goes on.
Put(text, bytes, space, next) == [out |-> text.out \o bytes, space |-> space, next |-> next]

\* One round of the loop, at byte i of data.  At most room bytes are put out.
Round(data, i, text, room) ==
  LET c == data[i]
      n == SeqLen(c)
  IN  IF i < text.next \/ Len(text.out) >= room THEN text
      ELSE CASE IsControl(c) -> IF IsBlank(c) /\ ~text.space THEN Put(text, <<Space>>, TRUE, text.next) ELSE text
             [] c \in 33 .. 126 -> Put(text, <<c>>, FALSE, text.next)
             [] c > 127 /\ n = 0 -> Put(text, <<Question>>, text.space, text.next)
             [] n > 0 /\ (i + n - 1 > Len(data) \/ Len(text.out) + n > room) ->
                  Put(text, <<Question>>, FALSE, Len(data) + 1)
             [] OTHER -> IF ValidSequence(Slice(data, i, n)) THEN Put(text, Slice(data, i, n), FALSE, i + n)
                         ELSE Put(text, <<Question>>, FALSE, text.next)

NoText == [out |-> << >>, space |-> TRUE, next |-> 1]

Text(data, room) ==
  LET text[i \in 0 .. Len(data)] == IF i = 0 THEN NoText ELSE Round(data, i, text[i - 1], room)
  IN  text[Len(data)].out

\* The buffer of size bytes ends with a NUL.
TextPreview(data, size) == Text(data, size - 1)

\* generate_binary_preview: the MIME type, and the size, whose digits are left out here.
BinaryPreview(type, size) == Cut(type \o <<Space, 124, Space>>, size - 1)

\* generate_preview; "text/*" is a prefix of the MIME type.
GeneratePreview(data, type, text, size) ==
  IF IsPrefix(text, type) THEN TextPreview(data, size) ELSE BinaryPreview(type, size)

-------------------------------------------------------------------------------
(* What it is measured against: well-formed UTF-8 byte sequences, table 3-7 of   *)
(* the Unicode standard.                                                        *)

Follows(c) == CASE c = 224 -> 160 .. 191
                [] c = 237 -> 128 .. 159
                [] c = 240 -> 144 .. 191
                [] c = 244 -> 128 .. 143
                [] OTHER -> 128 .. 191

Blanks == {9, 10, 13, Space}

Lead(n) == CASE n = 1 -> 0 .. 127
             [] n = 2 -> 194 .. 223
             [] n = 3 -> 224 .. 239
             [] n = 4 -> 240 .. 244

IsCharacter(s) == /\ Len(s) \in 1 .. 4
                  /\ Head(s) \in Lead(Len(s))
                  /\ Len(s) > 1 => s[2] \in Follows(Head(s))
                  /\ \A i \in 3 .. Len(s) : s[i] \in 128 .. 191

\* Characters begin at starts, each where the one before it ends.
Characters(s, starts) ==
  /\ 1 \in starts \cup {Len(s) + 1}
  /\ \A i \in starts : \E n \in 1 .. 4 : /\ i + n \in starts \cup {Len(s) + 1}
                                       /\ IsCharacter(Slice(s, i, n))

WellFormed(s) == \E starts \in SUBSET (1 .. Len(s)) : Characters(s, starts)

Printable(b) == b >= Space /\ b # 127

Readable(s) == WellFormed(s) /\ \A i \in DOMAIN s : Printable(s[i])

\* Text that needs no change: no control characters, single spaces between words only.
Clean(s) == /\ Readable(s)
            /\ \A i \in DOMAIN s : s[i] = Space => i > 1 /\ s[i - 1] # Space

\* The words so far, with one more byte, which begins a word if a blank is before it.
WordStep(words, blank, b) ==
  IF b \in Blanks THEN words
  ELSE IF blank THEN Append(words, <<b>>)
  ELSE [words EXCEPT ![Len(words)] = Append(@, b)]

\* The words of a text, blanks of all kinds being the same.
WordsOf(s) ==
  LET words[i \in 0 .. Len(s)] ==
        IF i = 0 THEN << >> ELSE WordStep(words[i - 1], i = 1 \/ s[i - 1] \in Blanks, s[i])
  IN  words[Len(s)]

\* A preview of size - 1 bytes at most, on one line and valid UTF-8 whatever the payload
\* is.  A text that fits has the words of the payload; of a text in good order that does
\* not fit it is the beginning, with a ? where a character did not.
Faithful(data, preview, size) ==
  /\ Len(preview) < size /\ Readable(preview)
  /\ WellFormed(data) /\ (\A i \in DOMAIN data : Printable(data[i]) \/ data[i] \in Blanks) /\ Len(data) < size
       => WordsOf(preview) = WordsOf(data)
  /\ Clean(data) => \E k \in 0 .. Len(preview) :
                      /\ IsPrefix(SubSeq(preview, 1, k), data)
                      /\ \/ k = Len(preview)
                         \/ k = Len(preview) - 1 /\ preview[k + 1] = Question
                      /\ Len(data) < size => preview = data
===============================================================================
