-------------------------------- MODULE MCCclip --------------------------------
(* Small instances of Cclip.                                                    *)
EXTENDS Cclip

CONSTANTS r1, r2

Line(action) == [action |-> action, usage |-> "ok", id |-> 1, fields |-> {}, filter |-> {},
                 secure |-> FALSE]

Asking(action, tokens) == [Line(action) EXCEPT !.fields = {tokens}]

MCTextPrefix == <<116, 47>>          \* t/
TextType     == <<116, 47, 112>>     \* t/p
ImageType    == <<105>>

Entry(i, type, data, tags) == [id |-> i, data |-> data, type |-> type, tags |-> tags]

\* Lead, continuation and control bytes around every bound of UTF-8, all combinations of
\* up to three; and sequences of four.
Bytes == {9, 65, 127, 128, 160, 193, 194, 224, 237}

Payloads == BoundedSeq(Bytes, 3)
            \cup {<<a, b, 128, c>> : a \in {240, 244, 245}, b \in {128, 143, 144}, c \in {65, 191}}
            \cup {<<a, b, 128>> : a \in {224, 237, 239}, b \in {143, 144, 159, 191}}
            \cup {<<65, 10, 13, 32, 66>>, <<65, 32, 240, 144, 128, 128>>, <<65, 66, 67, 68, 69>>,
                  <<240, 144, 128, 128, 65>>, <<255, 9, 65>>}

Previews == {[line |-> Asking("list", <<"preview", "size">>),
              contents |-> <<Entry(1, TextType, d, << >>)>>, orphans |-> << >>] : d \in Payloads \ {<< >>}}

t1 == <<49>>
t2 == <<50>>
t3 == <<51>>

\* Two texts with the same preview, an image, tags.
Few == <<Entry(3, TextType, <<65, 9>>, <<t1, t2>>), Entry(2, ImageType, <<1, 2>>, << >>),
         Entry(1, TextType, <<65, 32, 10>>, <<t2>>)>>

Lines == {Line("list"), Asking("list", <<"type", "preview">>), Asking("list", <<"tags", "id">>),
          [Asking("list", <<"time">>) EXCEPT !.filter = {t1}],
          Asking("list", <<"id", "rowid">>), Asking("list", << >>), Asking("list", <<"data">>),
          Asking("list", <<"id", "size", "tag", "time", "type", "preview", "rowid">>),
          [Line("list") EXCEPT !.usage = "bad"], [Line("list") EXCEPT !.usage = "help"],
          Line("get"), [Line("get") EXCEPT !.id = 0], Asking("get", <<"tags", "preview">>),
          Line("tags"), Line("tags_delete"),
          Line("delete"), [Line("delete") EXCEPT !.secure = TRUE]}

Copy == [line |-> Line("copy"), contents |-> <<Entry(1, TextType, <<65, 66, 65>>, << >>)>>, orphans |-> << >>]

Meets(l) == [line |-> l, contents |-> Few, orphans |-> <<t3>>]

MCScenario == Previews \cup {Copy} \cup {Meets(l) : l \in Lines}

MCSecure == {Meets([Line("delete") EXCEPT !.secure = s]) : s \in BOOLEAN}

\* LinesParse is about all of them.
ASSUME MCPlainTypes == PlainTypes

\* One of the lists has fewer lines than entries: two of these three look alike in the
\* fields asked for, and SELECT DISTINCT keeps one.
ASSUME MCLookAlike ==
  LET l == Asking("list", <<"type", "preview">>) IN
  /\ Meets(l) \in MCScenario
  /\ Len(ListRows([i \in DOMAIN Few |-> Stored(Few[i])], l)) = 2 /\ Len(Few) = 3
===============================================================================
