------------------------------ MODULE MCSelection ------------------------------
(* Small instances of Selection.                                                *)
EXTENDS Selection

CONSTANTS text, image, hint, long,  \* MIME types
          term, usr1                \* SIGTERM (SIGINT has the same callback) and SIGUSR1

MCSignals == <<term, usr1>>

\* cclipd -t image/png -t "*"
MCPatterns == <<{image}, {text, image, hint}>>

From(ts, primary, answer) == [types |-> ts, primary |-> primary, hint |-> answer]

\* A source that is asked for the hint and does not answer.
Mute == From(<<text, hint>>, FALSE, "mute")

\* A copy that offers several types, a primary selection, one that offers nothing
\* usable, and sources that have a hint.
MCSource == {From(<<text, image>>, FALSE, "other"),
             From(<<image>>, TRUE, "other"),
             From(<<long>>, FALSE, "other"),
             From(<<hint, text>>, FALSE, "secret"),
             From(<<text, hint>>, FALSE, "split"),
             Mute}

MCMute == {From(<<text>>, FALSE, "other"), Mute}
===============================================================================
