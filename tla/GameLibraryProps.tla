-------------------------- MODULE GameLibraryProps --------------------------
(***************************************************************************)
(* The properties of GameLibrary.                                          *)
(***************************************************************************)
EXTENDS GameLibrary

Unpacked == {"register", "clean", "cleanMeta"}

(* gameDownload.c:600-730: what is registered and left in the directory of   *)
(* the game is the whole build whose hash the server had answered, however   *)
(* often the transfer was resumed, on whatever old file, and whatever the    *)
(* administrator did to the archive meanwhile; unless a second transfer of   *)
(* the same game ran at the same time.                                       *)
UnpackedIsOffered ==
    \A s \in Slots : dl[s].alone /\ dl[s].pc \in Unpacked => dir = dl[s].hash

(* gameDownload.c:330 and 600: an old partial file, with the chunk count of  *)
(* any older build, costs one attempt.  The next one succeeds if nothing     *)
(* disturbs it: nobody is locked out of a game by what a crash left behind.  *)
HealsAfterOneFailure == strikes <= 1

-----------------------------------------------------------------------------
(* What makes UnpackedIsOffered so, and the proofs are about.                *)

(* serverHandleGameDownload has a version from its first look-up on and a    *)
(* row from its second; the worker it starts has the path of that version.   *)
RequestInv ==
    /\ ask.pc \in {"platform", "file"} => ask.version \in Versions
    /\ ask.pc = "file" => ask.row \in Builds
    /\ \A s \in Slots : worker[s].pc = "started" => worker[s].path \in Versions

(* A slot whose descriptor is of <id>.downloading itself finds that file.   *)
LinkInv == \A s \in Slots : dl[s].linked => part # NoFile

(* A transfer that is alone has its file for itself: the file is the archive *)
(* from the test of its hash until it is unpacked.                           *)
AloneInv ==
    \A s \in Slots : dl[s].alone =>
        /\ Active(s)
        /\ \A r \in Slots \ {s} : ~Active(r)
        /\ dl[s].pc \in {"unpack", "unpacking"} => part = Archive(dl[s].hash)

IInv == TypeOK /\ RequestInv /\ LinkInv /\ AloneInv /\ UnpackedIsOffered

-----------------------------------------------------------------------------
(* What makes HealsAfterOneFailure so.                                       *)

(* The attempt of slot s, if it is calm: there is no other, the library      *)
(* offers one build, and the worker has the archive of that build.           *)
CalmAttempt(s) ==
    /\ dl[s].pc # "idle" /\ \A r \in Slots \ {s} : dl[r].pc = "idle"
    /\ Sound
    /\ ask.pc \in {"platform", "file"} => ask.version = version
    /\ ask.pc = "file" => ask.row = row
    /\ Active(s) => dl[s].hash = row
    /\ dl[s].pc \in {"pending", "meta", "recv"} =>
          \/ worker[s].pc = "started" /\ worker[s].path = version
          \/ worker[s].pc = "sending" /\ worker[s].data = Archive(row)
    /\ dl[s].pc \in {"meta", "recv"} => dl[s].linked
    /\ dl[s].pc = "unpack" => part = Archive(row)

(* After a failure the file is written from its first chunk on, and nothing  *)
(* of an older one is in it.                                                 *)
FromScratch(s) ==
    /\ dl[s].pc \in {"asking", "pending"} => dl[s].received = 0
    /\ dl[s].pc \in {"meta", "recv"} =>
          dl[s].received <= Total(s) /\ part = [i \in 1..dl[s].received |-> dl[s].hash]
    /\ dl[s].pc = "verify" => part = Archive(dl[s].hash)

HealInv ==
    /\ strikes \in {0, 1}
    /\ calm => \E s \in Slots : CalmAttempt(s) /\ (strikes = 1 => FromScratch(s))
    /\ ~calm /\ strikes = 1 => part = NoFile /\ \A s \in Slots : dl[s].pc = "idle"
=============================================================================
