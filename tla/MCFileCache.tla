---------------------------- MODULE MCFileCache ----------------------------
(* FileCache for TLC: which faults are looked at with which operations.    *)
EXTENDS FileCache

CONSTANTS e1, e2

\* Races with other clients, truncations and restarts while calls fail
Races   == <<{"call"}, {"others", "truncate", "remount", "lost"}>>
\* The process ends anywhere, and the next mount has a stored tree, of a file that
\* others change and truncations empty, ..
Crashes == <<{}, {"others", "truncate", "crash"}>>
\* .. and while calls fail
Offline == <<{"call"}, {"crash"}>>
\* Refused truncations of a file that is opened from what downloads leave
Refused == <<{"refused", "download"}, {"truncate"}>>
\* Downloads that end early, of a file that others change
Partial == <<{"download"}, {"others"}>>
\* All calls fail, in a mount of its own
Alone   == <<{"call", "download"}, {}>>
\* Copies on disk that are cut off, by a full disk or a crash
Full    == <<{"copy"}, {"crash"}>>
\* Nothing fails and nothing else happens
Quiet   == <<{}, {}>>

MCSettings  == {Races, Crashes, Offline, Refused, Partial, Alone, Full, Quiet}
\* The file is empty at first or holds one edit: which one makes no difference,
\* since nothing tells the edits apart, and the rest is written to it.
Small == hist[1] \in {{}, {e1}}

FailedCalls == {<<{"call"}, {}>>}
=============================================================================
