----------------------------- MODULE ReleaseLog ----------------------------
(***************************************************************************)
(* What the release history of an App promises to who reads it (the        *)
(* command line, the console, a rollback): a log.  People ask for an image *)
(* or leave it to the builder, and releases come in one at a time, each in *)
(* one step, by what is asked for at that moment.  Nothing here is read    *)
(* from a cache, refused or repeated: AppRelease, where all of that        *)
(* happens, implements it.                                                 *)
(***************************************************************************)
EXTENDS Naturals

CONSTANTS
    Images,      \* digest references an App can run
    Configs,     \* contents of the config vars
    NoImage,     \* the image is the builder's to choose
    MaxReleases  \* releases kept

VARIABLES
    pin,  \* the image asked for
    log   \* the set of the releases that are kept

Entry == [num : Nat \ {0}, image : Images, config : Configs]

\* The kept releases have consecutive numbers, MaxReleases at most.
Gapless ==
    /\ log \subseteq Entry
    /\ \A r, s \in log :
         /\ r.num = s.num => r = s
         /\ r.num < s.num + MaxReleases
         /\ \A n \in s.num .. r.num : \E t \in log : t.num = n

\* A reader can come at any time.
Init ==
    /\ pin \in Images \cup {NoImage}
    /\ Gapless

Ask(i) ==
    /\ pin' = i
    /\ UNCHANGED log

\* Release n is of the image asked for, differs from the one before it, and
\* drops the one that is MaxReleases older.
Add(n, i, c) ==
    /\ pin \in {NoImage, i}
    /\ \A r \in log : r.num < n /\ (r.num + 1 = n => <<r.image, r.config>> # <<i, c>>)
    /\ log' = {r \in log : n < r.num + MaxReleases} \cup {[num |-> n, image |-> i, config |-> c]}
    /\ UNCHANGED pin

Next ==
    \/ \E i \in Images \cup {NoImage} : Ask(i)
    \/ \E n \in {1} \cup {r.num + 1 : r \in log}, i \in Images, c \in Configs : Add(n, i, c)

Spec == Init /\ [][Next]_<<pin, log>>
=============================================================================
