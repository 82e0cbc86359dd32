-------------------------- MODULE PhotoPages_proofs --------------------------
(***************************************************************************)
(* Proofs about photos and pictures, from the camera to what is stored:    *)
(* the two pages by which a setter resets a wall, which are the camera     *)
(* (WallCamera) and the review of the reset (ResetReview), the picture of  *)
(* an account (Avatars) and the stored photos of a wall (WallPhotos), for  *)
(* any number of streams, captures, holds, requests, uploads and faults.   *)
(***************************************************************************)
EXTENDS MCClientPages, FiniteSetTheorems, TLAPS


-----------------------------------------------------------------------------
(* The lenses.                                                             *)

Lenses == Lens \cup {None}

Openers ==
    [for : {"nothing", "first", "again", "preferred", "switch", "back"},
     step : {"idle", "listing", "asking", "playing"}, gen : Nat, lens : Lenses, attempt : Nat]

LensTyped ==
    /\ gen \in Nat
    /\ opener \in Openers
    /\ stream \in [gen : Nat, lens : Lenses]
    /\ savedLens \in Lenses /\ before \in Lenses

\* The page's stream runs, and its lens is marked.
StreamRuns ==
    stream = Camera!NoStream \/ (stream \in live /\ active = stream.lens)

\* While the latest request waits for the device, no camera runs.
AskingIsAlone ==
    /\ opener.gen <= gen
    /\ opener.step = "asking" => opener.gen # 0
    /\ opener.step = "asking" /\ opener.gen = gen => live = {}

\* While the page is shown, requests are not superseded: the lenses are listed once the
\* first camera plays, and from then on only the pills, one at a time, ask for another.
PageIsInStep ==
    cameraMounted =>
        /\ opener.step \in {"asking", "playing"} => opener.gen = gen
        /\ opener.step = "idle" <=> opener.for = "nothing"
        /\ opener.step = "listing" => opener.for \in {"first", "again"}
        /\ opener.for \in {"switch", "back"} => listed /\ switching /\ opener.step # "listing"
        /\ opener.for \in {"first", "again", "preferred"} => ~listed
        /\ opener.for \notin {"switch", "back"} => ~switching
        /\ opener.step = "playing" \/ opener.for = "again" => stream # Camera!NoStream
        /\ ready => listed
        /\ ready /\ ~switching => stream # Camera!NoStream

LensInv == LensTyped /\ Camera!NoCameraIsLost /\ StreamRuns /\ AskingIsAlone /\ PageIsInStep

LEMMA LensIdle ==
    LensInv /\ UNCHANGED <<cameraMounted, savedLens, gen, stream, live, opener, before, ready, switching,
                           listed, active>> => LensInv'
BY DEF LensInv, LensTyped, Camera!NoCameraIsLost, StreamRuns, AskingIsAlone, PageIsInStep

LEMMA LensInit == Camera!Init => LensInv
<1> SUFFICES ASSUME Camera!Init PROVE LensInv
  OBVIOUS
<1>1. opener = [for |-> "first", step |-> "listing", gen |-> 0, lens |-> None, attempt |-> 0]
  BY DEF Camera!Init, Camera!Idle
<1>2. LensTyped /\ AskingIsAlone
  <2>1. opener \in Openers /\ opener.gen = 0 /\ opener.step = "listing"
    BY <1>1 DEF Openers, Lenses
  <2>2. gen = 0 /\ stream \in [gen : Nat, lens : Lenses] /\ savedLens \in Lenses /\ before \in Lenses
    BY DEF Camera!Init, Camera!NoStream, Lenses
  <2> QED
    BY <2>1, <2>2 DEF LensTyped, AskingIsAlone
<1>3. PageIsInStep
  <2>1. ~ready /\ ~switching /\ ~listed
    BY DEF Camera!Init
  <2>2. opener.for = "first" /\ opener.step = "listing"
    BY <1>1
  <2> QED
    BY <2>1, <2>2 DEF PageIsInStep
<1> QED
  BY <1>2, <1>3 DEF Camera!Init, LensInv, Camera!NoCameraIsLost, StreamRuns

\* openStream leaves no camera running, and is the latest request.
LEMMA LensOpen ==
    ASSUME LensInv, NEW for \in {"first", "preferred", "switch", "back"}, NEW lens \in Lenses,
           Camera!Open(for, lens), savedLens' = savedLens, before' \in Lenses
    PROVE  /\ LensTyped' /\ Camera!NoCameraIsLost' /\ StreamRuns' /\ AskingIsAlone'
           /\ opener'.for = for /\ opener'.step = "asking" /\ opener'.gen = gen'
<1>1. opener' = [for |-> for, step |-> "asking", gen |-> gen + 1, lens |-> lens, attempt |-> 1]
      /\ gen' = gen + 1 /\ stream' = Camera!NoStream
  BY DEF Camera!Open
<1>2. live' = {}
  BY DEF Camera!Open, LensInv, Camera!NoCameraIsLost
<1>3. gen \in Nat /\ savedLens \in Lenses
  BY DEF LensInv, LensTyped
<1>4. LensTyped'
  BY <1>1, <1>3 DEF LensTyped, Openers, Camera!NoStream, Lenses
<1>5. AskingIsAlone'
  BY <1>1, <1>2, <1>3 DEF AskingIsAlone
<1>6. Camera!NoCameraIsLost' /\ StreamRuns'
  BY <1>1, <1>2 DEF Camera!NoCameraIsLost, StreamRuns
<1> QED
  BY <1>1, <1>4, <1>5, <1>6

LEMMA LensListed == ASSUME LensInv, Camera!Listed PROVE LensInv'
<1> DEFINE available == Camera!ListLenses
           preferred == Camera!PreferredLens(available)
<1>1. opener.step = "listing" /\ UNCHANGED <<cameraMounted, savedLens, before, switching, active>>
  BY DEF Camera!Listed
<1>2. preferred \in Lenses
  BY DEF LensInv, LensTyped, Lenses, Camera!PreferredLens, Camera!ListLenses
<1>3. before' \in Lenses
  BY <1>1 DEF LensInv, LensTyped
<1>4. CASE opener.for = "first"
  <2>1. PICK for \in {"first", "preferred"} : Camera!Open(for, preferred)
    BY <1>4 DEF Camera!Listed
  <2>2. UNCHANGED <<ready, listed>>
    BY <1>4 DEF Camera!Listed
  <2>3. /\ LensTyped' /\ Camera!NoCameraIsLost' /\ StreamRuns' /\ AskingIsAlone'
        /\ opener'.for = for /\ opener'.step = "asking" /\ opener'.gen = gen'
    BY <1>1, <1>2, <1>3, <2>1, LensOpen
  <2>4. PageIsInStep'
    BY <1>1, <1>4, <2>2, <2>3 DEF LensInv, PageIsInStep
  <2> QED
    BY <2>3, <2>4 DEF LensInv
<1>5. CASE opener.for # "first" /\ preferred \notin {None, active}
  <2>1. Camera!Open("preferred", preferred) /\ UNCHANGED <<ready, listed>>
    BY <1>5 DEF Camera!Listed
  <2>2. /\ LensTyped' /\ Camera!NoCameraIsLost' /\ StreamRuns' /\ AskingIsAlone'
        /\ opener'.for = "preferred" /\ opener'.step = "asking" /\ opener'.gen = gen'
    BY <1>1, <1>2, <1>3, <2>1, LensOpen
  <2>3. cameraMounted => opener.for = "again"
    BY <1>1, <1>5 DEF LensInv, LensTyped, Openers, PageIsInStep
  <2>4. PageIsInStep'
    BY <1>1, <2>1, <2>2, <2>3 DEF LensInv, PageIsInStep
  <2> QED
    BY <2>2, <2>4 DEF LensInv
<1>6. CASE opener.for # "first" /\ preferred \in {None, active}
  <2>1. /\ ready' = (ready \/ cameraMounted) /\ listed' = (listed \/ cameraMounted)
        /\ opener' = Camera!Idle
        /\ UNCHANGED <<gen, live, stream>>
    BY <1>6 DEF Camera!Listed
  <2>2. cameraMounted => opener.for = "again" /\ stream # Camera!NoStream /\ ~switching
    BY <1>1, <1>6 DEF LensInv, LensTyped, Openers, PageIsInStep
  <2>3. PageIsInStep'
    BY <1>1, <2>1, <2>2 DEF PageIsInStep, Camera!Idle
  <2>4. LensTyped'
    BY <1>1, <2>1 DEF LensInv, LensTyped, Openers, Camera!Idle, Lenses
  <2>5. AskingIsAlone'
    BY <2>1 DEF LensInv, LensTyped, AskingIsAlone, Camera!Idle
  <2> QED
    BY <1>1, <2>1, <2>3, <2>4, <2>5 DEF LensInv, Camera!NoCameraIsLost, StreamRuns
<1> QED
  BY <1>4, <1>5, <1>6

LEMMA LensGranted ==
    ASSUME LensInv, NEW lens \in Lens, Camera!Granted(lens)
    PROVE  LensInv'
<1>1. /\ opener.step = "asking"
      /\ UNCHANGED <<cameraMounted, savedLens, gen, before, ready, listed>>
  BY DEF Camera!Granted
<1>2. CASE opener.gen = gen
  <2>1. /\ stream' = [gen |-> gen, lens |-> lens]
        /\ live' = live \cup {stream'}
        /\ active' = lens
        /\ opener' = [opener EXCEPT !.step = "playing", !.lens = lens]
        /\ UNCHANGED switching
    BY <1>2 DEF Camera!Granted
  <2>2. live = {} /\ gen # 0 /\ gen \in Nat /\ opener \in Openers
    BY <1>1, <1>2 DEF LensInv, AskingIsAlone, LensTyped
  <2>3. /\ opener' \in Openers /\ opener'.step = "playing" /\ opener'.for = opener.for
        /\ opener'.gen = gen
    BY <1>2, <2>1, <2>2 DEF Openers, Lenses
  <2>4. stream' # Camera!NoStream
    BY <2>1, <2>2 DEF Camera!NoStream
  <2>5. LensTyped'
    BY <1>1, <2>1, <2>2, <2>3 DEF LensInv, LensTyped, Lenses
  <2>6. Camera!NoCameraIsLost' /\ StreamRuns'
    BY <2>1, <2>2 DEF Camera!NoCameraIsLost, StreamRuns
  <2>7. AskingIsAlone'
    BY <1>1, <2>2, <2>3 DEF AskingIsAlone
  <2>8. PageIsInStep'
    BY <1>1, <2>1, <2>3, <2>4 DEF LensInv, PageIsInStep
  <2> QED
    BY <2>5, <2>6, <2>7, <2>8 DEF LensInv
<1>3. CASE opener.gen # gen
  <2>1. opener' = Camera!Idle /\ switching' = FALSE /\ UNCHANGED <<stream, live, active>>
    BY <1>3 DEF Camera!Granted
  <2>2. ~cameraMounted
    BY <1>1, <1>3 DEF LensInv, PageIsInStep
  <2>3. LensTyped'
    BY <1>1, <2>1 DEF LensInv, LensTyped, Openers, Camera!Idle, Lenses
  <2>4. AskingIsAlone'
    BY <1>1, <2>1 DEF LensInv, LensTyped, AskingIsAlone, Camera!Idle
  <2> QED
    BY <1>1, <2>1, <2>2, <2>3, <2>4 DEF LensInv, Camera!NoCameraIsLost, StreamRuns, PageIsInStep
<1> QED
  BY <1>2, <1>3

\* The opener comes to rest.
LEMMA LensRests ==
    ASSUME LensInv, opener' = Camera!Idle \/ opener' = [Camera!Idle EXCEPT !.for = "again", !.step = "listing"],
           UNCHANGED <<cameraMounted, gen, stream, live, before, active>>, savedLens' \in Lenses, PageIsInStep'
    PROVE  LensInv'
<1>1. opener' \in Openers /\ opener'.step # "asking" /\ opener'.gen = 0
  <2>1. CASE opener' = Camera!Idle
    BY <2>1 DEF Openers, Camera!Idle, Lenses
  <2>2. CASE opener' = [Camera!Idle EXCEPT !.for = "again", !.step = "listing"]
    BY <2>2 DEF Openers, Camera!Idle, Lenses
  <2> QED
    BY <2>1, <2>2
<1>2. gen \in Nat
  BY DEF LensInv, LensTyped
<1>3. LensTyped'
  BY <1>1 DEF LensInv, LensTyped
<1>4. AskingIsAlone'
  BY <1>1, <1>2 DEF AskingIsAlone
<1> QED
  BY <1>3, <1>4 DEF LensInv, Camera!NoCameraIsLost, StreamRuns

LEMMA LensPlaying == ASSUME LensInv, Camera!Playing PROVE LensInv'
<1> DEFINE current == opener.gen = gen
<1>1. /\ opener.step = "playing"
      /\ opener' = IF opener.for = "first" /\ current
                   THEN [Camera!Idle EXCEPT !.for = "again", !.step = "listing"] ELSE Camera!Idle
      /\ savedLens' = IF opener.for = "switch" /\ current THEN opener.lens ELSE savedLens
      /\ UNCHANGED <<cameraMounted, gen, stream, live, before, active>>
  BY DEF Camera!Playing
<1>2. savedLens' \in Lenses
  BY <1>1 DEF LensInv, LensTyped, Openers
<1>3. ASSUME cameraMounted
      PROVE  /\ ready' <=> (ready \/ opener.for \in {"back", "preferred", "switch"})
             /\ listed' <=> (listed \/ opener.for = "preferred")
             /\ switching' <=> (switching /\ opener.for \notin {"switch", "back"})
  <2>1. current
    BY <1>1, <1>3 DEF LensInv, PageIsInStep
  <2>2. (listed' <=> (listed \/ opener.for = "preferred"))
        /\ (switching' <=> (switching /\ opener.for \notin {"switch", "back"}))
    BY <1>3, <2>1 DEF Camera!Playing
  <2>3. CASE opener.for = "back"
    BY <1>3, <2>1, <2>2, <2>3 DEF Camera!Playing
  <2>4. CASE opener.for \in {"preferred", "switch"}
    BY <1>3, <2>1, <2>2, <2>4 DEF Camera!Playing
  <2>5. CASE opener.for \notin {"back", "preferred", "switch"}
    BY <2>1, <2>2, <2>5 DEF Camera!Playing
  <2> QED
    BY <2>3, <2>4, <2>5
<1>4. PageIsInStep'
  <2> SUFFICES ASSUME cameraMounted PROVE PageIsInStep'
    BY <1>1 DEF PageIsInStep
  <2>1. /\ current /\ stream # Camera!NoStream
        /\ opener.for \in {"first", "again", "preferred", "switch", "back"}
        /\ opener.for \in {"switch", "back"} => listed
        /\ opener.for \in {"first", "again", "preferred"} => ~listed
        /\ opener.for \notin {"switch", "back"} => ~switching
        /\ ready => listed
    BY <1>1 DEF LensInv, LensTyped, Openers, PageIsInStep
  <2>2. opener.for = "first" => opener'.for = "again" /\ opener'.step = "listing"
    BY <1>1, <2>1 DEF Camera!Idle
  <2>3. opener.for # "first" => opener'.for = "nothing" /\ opener'.step = "idle"
    BY <1>1 DEF Camera!Idle
  <2> QED
    BY <1>1, <1>3, <2>1, <2>2, <2>3 DEF PageIsInStep
<1> QED
  BY <1>1, <1>2, <1>4, LensRests

LEMMA LensFails ==
    ASSUME LensInv, Camera!AskAgain \/ Camera!StartFails \/ Camera!SwitchFails \/ Camera!BackFails
    PROVE  LensInv'
<1>1. CASE Camera!AskAgain
  <2>1. /\ opener' = [opener EXCEPT !.attempt = @ + 1]
        /\ opener.step = "asking"
        /\ UNCHANGED <<cameraMounted, savedLens, gen, stream, live, before, ready, switching, listed, active>>
    BY <1>1 DEF Camera!AskAgain
  <2>2. /\ opener' \in Openers /\ opener'.step = opener.step /\ opener'.for = opener.for
        /\ opener'.gen = opener.gen
    BY <2>1 DEF LensInv, LensTyped, Openers
  <2>3. LensTyped' /\ AskingIsAlone'
    BY <2>1, <2>2 DEF LensInv, LensTyped, AskingIsAlone
  <2>4. PageIsInStep'
    BY <2>1, <2>2 DEF LensInv, PageIsInStep
  <2> QED
    BY <2>1, <2>3, <2>4 DEF LensInv, Camera!NoCameraIsLost, StreamRuns
<1>2. CASE Camera!StartFails
  <2>1. /\ opener.for \in {"first", "preferred"}
        /\ ready' = (ready /\ ~cameraMounted) /\ opener' = Camera!Idle
        /\ UNCHANGED <<cameraMounted, savedLens, gen, stream, live, before, switching, listed, active>>
    BY <1>2 DEF Camera!StartFails
  <2>2. PageIsInStep'
    BY <2>1 DEF LensInv, PageIsInStep, Camera!Idle
  <2> QED
    BY <2>1, <2>2, LensRests DEF LensInv, LensTyped
<1>3. CASE Camera!SwitchFails
  <2>1. /\ opener.for = "switch" /\ Camera!Open("back", before)
        /\ UNCHANGED <<cameraMounted, savedLens, before, ready, switching, listed>>
    BY <1>3 DEF Camera!SwitchFails
  <2>2. before \in Lenses
    BY DEF LensInv, LensTyped
  <2>3. /\ LensTyped' /\ Camera!NoCameraIsLost' /\ StreamRuns' /\ AskingIsAlone'
        /\ opener'.for = "back" /\ opener'.step = "asking" /\ opener'.gen = gen'
    BY <2>1, <2>2, LensOpen
  <2>4. PageIsInStep'
    BY <2>1, <2>3 DEF LensInv, PageIsInStep
  <2> QED
    BY <2>3, <2>4 DEF LensInv
<1>4. CASE Camera!BackFails
  <2>1. /\ opener.for = "back"
        /\ ready' = FALSE /\ switching' = FALSE /\ opener' = Camera!Idle
        /\ UNCHANGED <<cameraMounted, savedLens, gen, stream, live, before, listed, active>>
    BY <1>4 DEF Camera!BackFails
  <2>2. PageIsInStep'
    BY <2>1 DEF LensInv, PageIsInStep, Camera!Idle
  <2> QED
    BY <2>1, <2>2, LensRests DEF LensInv, LensTyped
<1> QED
  BY <1>1, <1>2, <1>3, <1>4

LEMMA LensSwitch ==
    ASSUME LensInv, NEW lens \in Lens, Camera!SwitchLens(lens)
    PROVE  LensInv'
<1>1. /\ cameraMounted /\ listed /\ ~switching
      /\ before' = stream.lens /\ switching' = TRUE
      /\ Camera!Open("switch", lens)
      /\ UNCHANGED <<cameraMounted, savedLens, ready, listed>>
  BY DEF Camera!SwitchLens
<1>2. before' \in Lenses /\ lens \in Lenses
  BY <1>1 DEF LensInv, LensTyped, Lenses
<1>3. /\ LensTyped' /\ Camera!NoCameraIsLost' /\ StreamRuns' /\ AskingIsAlone'
      /\ opener'.for = "switch" /\ opener'.step = "asking" /\ opener'.gen = gen'
  BY <1>1, <1>2, LensOpen
<1>4. PageIsInStep'
  BY <1>1, <1>3 DEF LensInv, PageIsInStep
<1> QED
  BY <1>3, <1>4 DEF LensInv

\* Leaving the page stops its camera and supersedes every request.
LEMMA LensCleanup ==
    ASSUME LensInv, Camera!Cleanup, UNCHANGED <<savedLens, opener, before, active>>
    PROVE  LensInv'
<1>1. ~cameraMounted' /\ gen' = gen + 1 /\ live' = {} /\ stream' = Camera!NoStream
  BY DEF Camera!Cleanup, LensInv, Camera!NoCameraIsLost
<1>2. LensTyped'
  BY <1>1 DEF LensInv, LensTyped, Camera!NoStream, Lenses
<1>3. AskingIsAlone'
  BY <1>1 DEF LensInv, LensTyped, Openers, AskingIsAlone
<1> QED
  BY <1>1, <1>2, <1>3 DEF LensInv, Camera!NoCameraIsLost, StreamRuns, PageIsInStep

LEMMA LensNext == LensInv /\ Camera!Next => LensInv'
<1> SUFFICES ASSUME LensInv, Camera!Next PROVE LensInv'
  OBVIOUS
<1>1. CASE Camera!Answer
  BY <1>1, LensListed, LensPlaying, LensFails, LensGranted DEF Camera!Answer
<1>2. CASE \E lens \in Lens : Camera!SwitchLens(lens)
  BY <1>2, LensSwitch
<1>3. CASE Camera!LeavePage
  BY <1>3, LensCleanup DEF Camera!LeavePage
<1>4. CASE \E s \in Shots : Camera!Uploaded(s)
  <2>1. UNCHANGED <<savedLens, opener, before, ready, switching, listed, active>>
    BY <1>4 DEF Camera!Uploaded
  <2>2. Camera!Cleanup \/ UNCHANGED <<cameraMounted, gen, stream, live>>
    BY <1>4 DEF Camera!Uploaded
  <2> QED
    BY <2>1, <2>2, LensCleanup, LensIdle
<1>5. CASE \E s \in Shots : \/ Camera!Capture(s) \/ Camera!ChooseFile(s) \/ Camera!PhotoTaken(s)
                            \/ Camera!PhotoFails(s) \/ Camera!Raise(s) \/ Camera!Restore(s)
                            \/ Camera!DrawFrame(s) \/ Camera!UploadFails(s)
  <2>1. UNCHANGED Camera!lensVars
    BY <1>5 DEF Camera!Capture, Camera!ChooseFile, Camera!PhotoTaken, Camera!PhotoFails, Camera!Raise,
       Camera!Restore, Camera!DrawFrame, Camera!UploadFails
  <2> QED
    BY <2>1, LensIdle DEF Camera!lensVars
<1> QED
  BY <1>1, <1>2, <1>3, <1>4, <1>5 DEF Camera!Next, Camera!Develop

LEMMA LensIsTended == LensInv => Camera!NoCameraIsLost /\ Camera!ReadyShowsTheStream
BY DEF LensInv, StreamRuns, PageIsInStep, Camera!ReadyShowsTheStream

-----------------------------------------------------------------------------
(* The photos.                                                             *)

Streams == [gen : Nat, lens : Lenses]

ShotsTyped ==
    shot \in [Shots -> [step : {"idle", "photo", "raise", "restore", "frame", "upload"},
                       track : Streams, preview : BOOLEAN]]

\* A stream that has been raised to full size is one that a capture is to restore.
RaisedAreRestored ==
    \A t \in full : \E s \in Shots : shot[s].step = "restore" /\ shot[s].track = t

ShotsInv == ShotsTyped /\ RaisedAreRestored

LEMMA ShotsIdle == ShotsInv /\ UNCHANGED <<shot, full>> => ShotsInv'
BY DEF ShotsInv, ShotsTyped, RaisedAreRestored

LEMMA ShotsInit == Camera!Init => ShotsInv
BY DEF Camera!Init, ShotsInv, ShotsTyped, RaisedAreRestored, Streams, Lenses, Camera!NoShot, Camera!NoStream

\* A capture that restores nothing takes a step.
LEMMA ShotSteps ==
    ASSUME ShotsInv, NEW s \in Shots, shot[s].step # "restore", UNCHANGED full,
           ShotsTyped', \A t \in Shots \ {s} : shot'[t] = shot[t]
    PROVE  ShotsInv'
BY DEF ShotsInv, RaisedAreRestored

LEMMA ShotBegins ==
    ASSUME ShotsInv, LensInv, NEW s \in Shots, Camera!Capture(s) \/ Camera!ChooseFile(s)
    PROVE  ShotsInv'
<1>1. shot[s] = Camera!NoShot /\ UNCHANGED full
  BY DEF Camera!Capture, Camera!ChooseFile
<1>2. PICK one : one \in [step : {"photo", "frame", "raise", "upload"}, track : Streams, preview : BOOLEAN]
                 /\ shot' = [shot EXCEPT ![s] = one]
  <2>1. CASE Camera!Capture(s)
    <3>1. stream \in Streams
      BY DEF LensInv, LensTyped, Streams
    <3> QED
      BY <2>1, <3>1 DEF Camera!Capture
  <2>2. CASE Camera!ChooseFile(s)
    <3> DEFINE new == [shot[s] EXCEPT !.step = "upload"]
    <3>1. new \in [step : {"photo", "frame", "raise", "upload"}, track : Streams, preview : BOOLEAN]
      <4>1. shot[s] \in [step : {"idle"}, track : Streams, preview : BOOLEAN]
        BY <1>1 DEF Camera!NoShot, Camera!NoStream, Streams, Lenses
      <4> QED
        BY <4>1
    <3>2. shot' = [shot EXCEPT ![s] = new]
      BY <2>2 DEF Camera!ChooseFile
    <3> HIDE DEF new
    <3> QED
      BY <3>1, <3>2
  <2> QED
    BY <2>1, <2>2
<1>3. ShotsTyped' /\ \A t \in Shots \ {s} : shot'[t] = shot[t]
  BY <1>2 DEF ShotsInv, ShotsTyped
<1>4. shot[s].step # "restore"
  BY <1>1 DEF Camera!NoShot
<1> QED
  BY <1>1, <1>3, <1>4, ShotSteps

LEMMA ShotDevelops ==
    ASSUME ShotsInv, NEW s \in Shots,
           \/ Camera!PhotoTaken(s) \/ Camera!PhotoFails(s) \/ Camera!DrawFrame(s)
           \/ Camera!Uploaded(s) \/ Camera!UploadFails(s)
    PROVE  ShotsInv'
<1>1. shot[s].step # "restore" /\ UNCHANGED full
  BY DEF Camera!PhotoTaken, Camera!PhotoFails, Camera!DrawFrame, Camera!Uploaded, Camera!UploadFails
<1>2. \/ shot' = [shot EXCEPT ![s] = Camera!NoShot]
      \/ shot' = [shot EXCEPT ![s].step = "upload"]
      \/ shot' = [shot EXCEPT ![s].step = "raise", ![s].preview = shot[s].track \notin full]
  BY DEF Camera!PhotoTaken, Camera!PhotoFails, Camera!DrawFrame, Camera!Uploaded, Camera!UploadFails
<1>3. ShotsTyped' /\ \A t \in Shots \ {s} : shot'[t] = shot[t]
  <2>1. CASE shot' = [shot EXCEPT ![s] = Camera!NoShot]
    BY <2>1 DEF ShotsInv, ShotsTyped, Camera!NoShot, Camera!NoStream, Streams, Lenses
  <2>2. CASE shot' = [shot EXCEPT ![s].step = "upload"]
    BY <2>2 DEF ShotsInv, ShotsTyped
  <2>3. CASE shot' = [shot EXCEPT ![s].step = "raise", ![s].preview = shot[s].track \notin full]
    BY <2>3 DEF ShotsInv, ShotsTyped
  <2> QED
    BY <1>2, <2>1, <2>2, <2>3
<1> QED
  BY <1>1, <1>3, ShotSteps

LEMMA ShotRaises == ASSUME ShotsInv, NEW s \in Shots, Camera!Raise(s) PROVE ShotsInv'
<1>1. /\ shot[s].step = "raise"
      /\ full' \subseteq full \cup {shot[s].track}
      /\ shot' = [shot EXCEPT ![s].step = "restore"]
  BY DEF Camera!Raise
<1>2. ShotsTyped'
  BY <1>1 DEF ShotsInv, ShotsTyped
<1>3. /\ shot'[s].step = "restore" /\ shot'[s].track = shot[s].track
      /\ \A t \in Shots \ {s} : shot'[t] = shot[t]
  BY <1>1 DEF ShotsInv, ShotsTyped
<1>4. RaisedAreRestored'
  BY <1>1, <1>3 DEF ShotsInv, RaisedAreRestored
<1> QED
  BY <1>2, <1>4 DEF ShotsInv

LEMMA ShotRestores == ASSUME ShotsInv, NEW s \in Shots, Camera!Restore(s) PROVE ShotsInv'
<1>1. /\ full' = full \ {shot[s].track}
      /\ \/ shot' = [shot EXCEPT ![s].step = "upload"]
         \/ shot' = [shot EXCEPT ![s].step = "frame"]
  BY DEF Camera!Restore
<1>2. ShotsTyped' /\ \A t \in Shots \ {s} : shot'[t] = shot[t]
  BY <1>1 DEF ShotsInv, ShotsTyped
<1>3. RaisedAreRestored'
  BY <1>1, <1>2 DEF ShotsInv, RaisedAreRestored
<1> QED
  BY <1>2, <1>3 DEF ShotsInv

LEMMA ShotsNext == LensInv /\ ShotsInv /\ Camera!Next => ShotsInv'
<1> SUFFICES ASSUME LensInv, ShotsInv, Camera!Next PROVE ShotsInv'
  OBVIOUS
<1>1. CASE UNCHANGED Camera!shotVars
  BY <1>1, ShotsIdle DEF Camera!shotVars
<1>2. CASE \E s \in Shots : Camera!Capture(s) \/ Camera!ChooseFile(s) \/ Camera!Develop(s)
  BY <1>2, ShotBegins, ShotDevelops, ShotRaises, ShotRestores DEF Camera!Develop
<1>3. Camera!Answer => UNCHANGED Camera!shotVars
  BY DEF Camera!Answer, Camera!Listed, Camera!Playing, Camera!StartFails, Camera!SwitchFails, Camera!BackFails,
     Camera!AskAgain, Camera!Granted
<1>4. (\E lens \in Lens : Camera!SwitchLens(lens)) \/ Camera!LeavePage => UNCHANGED Camera!shotVars
  BY DEF Camera!SwitchLens, Camera!LeavePage
<1> QED
  BY <1>1, <1>2, <1>3, <1>4 DEF Camera!Next

LEMMA PreviewIsTended == ShotsInv => Camera!PreviewIsRestored
<1>1. Camera!NoShot.step # "restore"
  BY DEF Camera!NoShot
<1> QED
  BY <1>1 DEF ShotsInv, RaisedAreRestored, Camera!PreviewIsRestored

CameraInv == LensInv /\ ShotsInv

\* No camera runs that the page has lost hold of, the shutter is offered for one that
\* runs, and a capture gives the preview its size back: however the device's answers, the
\* lenses, the captures, the uploads and leaving the page interleave.
THEOREM CameraTended == PagesSpec => []CameraIsTended
<1> DEFINE IInv == screen = "camera" => CameraInv
<1>1. PagesInit => IInv
  BY LensInit, ShotsInit DEF PagesInit, CameraInv
<1>2. IInv /\ [PagesNext]_pages => IInv'
  <2> SUFFICES ASSUME IInv, [PagesNext]_pages PROVE IInv'
    OBVIOUS
  <2>1. screen' = screen
    BY DEF PagesNext, pages
  <2>2. CASE UNCHANGED pages
    <3>1. UNCHANGED cameraVars
      BY <2>2 DEF pages
    <3>2. LensInv => LensInv'
      BY <3>1, LensIdle DEF cameraVars
    <3>3. ShotsInv => ShotsInv'
      BY <3>1, ShotsIdle DEF cameraVars
    <3> QED
      BY <2>1, <3>2, <3>3 DEF CameraInv
  <2>3. CASE PagesNext
    <3>1. screen = "camera" => Camera!Next
      BY <2>3 DEF PagesNext, Editing, Caching, Shooting, Listing, Reviewing, Logging, Reading, Ordering,
         Picturing, Storing, Counting
    <3> QED
      BY <2>1, <3>1, LensNext, ShotsNext DEF CameraInv
  <2> QED
    BY <2>2, <2>3
<1>3. IInv => CameraIsTended
  BY LensIsTended, PreviewIsTended DEF CameraInv, CameraIsTended
<1> QED
  BY <1>1, <1>2, <1>3, PTL DEF PagesSpec

-----------------------------------------------------------------------------
(* The review of a reset.                                                  *)

Requests ==
    [id : Nat, op : Review!Edits \cup {"apply", "discard"}, old : Old \cup {None}, new : New \cup {None},
     step : {"sent", "served"}, newest : BOOLEAN]

DiffsRead == [matches : [Old -> New \cup {None}] \cup {None}, holds : (SUBSET New) \cup {None}]

\* A mark on the photo is of holds on the side that its kind says.
MarkIsRight(m) ==
    /\ m.kind \in Review!Kinds
    /\ m.kind = "removed" => m.hold \in Old
    /\ m.kind = "new" => m.hold \in New
    /\ m.kind = "kept" => m.hold \in New /\ m.old \in Old

ReviewTyped ==
    /\ Review!TypeOK
    /\ reviewMade \in Nat
    /\ reviewCalls \subseteq Requests
    /\ read # None => read \in DiffsRead /\ (read.holds # None => read.matches # None)
    /\ selection # None => MarkIsRight(selection)

\* What has been done on the server and not been answered yet.
ServedOps == {c.op : c \in {c \in reviewCalls : c.step = "served"}}

\* What has been read of a diff is what the server has, unless an answer is to drop it.
ReadIsFresh ==
    ServedOps = {} /\ ~answersLost /\ ~torn /\ read # None =>
        /\ read.matches # None => read.matches = match
        /\ read.holds # None => read.holds = Review!Present

\* So is what is shown, unless it is to be fetched or the detection is awaited.
ShownIsFresh ==
    /\ diff # None /\ detection = "processing" => diff.status = "processing"
    /\ /\ ServedOps = {} /\ ~answersLost /\ ~torn /\ read = None /\ ~due
       /\ reviewPlace = "page" /\ review = "pending" /\ diff # None /\ diff.status # "processing"
       => Review!UpToDate

\* An answer to come says what was decided.
DecisionsHold ==
    /\ "apply" \in ServedOps => review = "applied"
    /\ "discard" \in ServedOps => review = "discarded"
    /\ reviewPlace = "wall" => review # "pending"

ReviewInv ==
    ReviewTyped /\ Review!RequestsPairOldAndNew /\ ReadIsFresh /\ ShownIsFresh /\ DecisionsHold

LEMMA ReviewIdle == ReviewInv /\ UNCHANGED reviewVars => ReviewInv'
<1> SUFFICES ASSUME ReviewInv, UNCHANGED reviewVars PROVE ReviewInv'
  OBVIOUS
<1>1. UNCHANGED <<detection, review, match, hold, read, due, diff, selection, reviewCalls, reviewMade,
                  reviewPlace, torn, answersLost>>
  BY DEF reviewVars
<1>2. UNCHANGED <<ServedOps, Review!Present>>
  BY <1>1 DEF ServedOps, Review!Present
<1>3. ReviewTyped' /\ Review!RequestsPairOldAndNew'
  BY <1>1 DEF ReviewInv, ReviewTyped, Review!TypeOK, Review!RequestsPairOldAndNew
<1>4. ReadIsFresh' /\ ShownIsFresh' /\ DecisionsHold'
  BY <1>1, <1>2 DEF ReviewInv, ReadIsFresh, ShownIsFresh, DecisionsHold, Review!UpToDate
<1> QED
  BY <1>3, <1>4 DEF ReviewInv

LEMMA ReviewInit == Review!Init => ReviewInv
<1> SUFFICES ASSUME Review!Init PROVE ReviewInv
  OBVIOUS
<1>1. ReviewTyped
  BY DEF Review!Init, ReviewTyped, Review!TypeOK
<1>2. ServedOps = {}
  BY DEF Review!Init, ServedOps
<1> QED
  BY <1>1, <1>2 DEF Review!Init, ReviewInv, Review!RequestsPairOldAndNew, ReadIsFresh, ShownIsFresh, DecisionsHold

\* Reading a diff touches neither the requests nor the server.
LEMMA ReviewReads ==
    ASSUME ReviewInv, UNCHANGED <<Review!serverVars, selection, reviewPlace, reviewCalls, reviewMade, torn, answersLost>>,
           diff' \in Review!Diffs \cup {None},
           read' # None => read' \in DiffsRead /\ (read'.holds # None => read'.matches # None),
           ReadIsFresh', ShownIsFresh'
    PROVE  ReviewInv'
<1>1. UNCHANGED <<detection, review, match, hold>>
  BY DEF Review!serverVars
<1>2. ReviewTyped' /\ Review!RequestsPairOldAndNew'
  BY <1>1 DEF ReviewInv, ReviewTyped, Review!TypeOK, Review!RequestsPairOldAndNew
<1>3. DecisionsHold'
  BY <1>1 DEF ReviewInv, DecisionsHold, ServedOps
<1> QED
  BY <1>2, <1>3 DEF ReviewInv

LEMMA ReviewFetch == ASSUME ReviewInv, Review!Fetch PROVE ReviewInv'
<1>1. /\ read' = [matches |-> None, holds |-> None]
      /\ UNCHANGED <<Review!serverVars, diff, selection, reviewPlace, reviewCalls, reviewMade, torn, answersLost>>
  BY DEF Review!Fetch, Review!pageVars
<1>2. read' \in DiffsRead /\ read' # None
  BY <1>1, NoneIsNoDiff DEF DiffsRead
<1>3. ReadIsFresh'
  BY <1>1 DEF ReadIsFresh
<1>4. ShownIsFresh'
  BY <1>1, <1>2 DEF ReviewInv, ShownIsFresh, Review!serverVars
<1>5. diff' \in Review!Diffs \cup {None}
  BY <1>1 DEF ReviewInv, ReviewTyped, Review!TypeOK
<1> QED
  BY <1>1, <1>2, <1>3, <1>4, <1>5, ReviewReads

LEMMA ReviewReadMatches == ASSUME ReviewInv, Review!ReadMatches PROVE ReviewInv'
<1>1. /\ read # None /\ read.matches = None
      /\ read' = IF review = "pending" THEN [read EXCEPT !.matches = match] ELSE None
      /\ UNCHANGED <<Review!serverVars, diff, selection, reviewPlace, reviewCalls, reviewMade, torn, answersLost>>
  BY DEF Review!ReadMatches, Review!pageVars
<1>2. /\ match \in [Old -> New \cup {None}] /\ read \in DiffsRead /\ read.holds = None
      /\ diff \in Review!Diffs \cup {None}
  BY <1>1 DEF ReviewInv, ReviewTyped, Review!TypeOK
<1>3. read' # None => read' \in DiffsRead /\ read'.holds = None /\ read'.matches = match /\ review = "pending"
  BY <1>1, <1>2 DEF DiffsRead
<1>4. ReadIsFresh'
  BY <1>1, <1>3 DEF ReadIsFresh, Review!serverVars
<1>5. UNCHANGED <<detection, review, diff, reviewPlace>>
  BY <1>1 DEF Review!serverVars
<1>6. review = "pending" => read' # None
  BY <1>1, <1>2, NoneIsNoDiff DEF DiffsRead
<1>7. ShownIsFresh'
  BY <1>1, <1>5, <1>6 DEF ReviewInv, ShownIsFresh
<1> QED
  BY <1>1, <1>2, <1>3, <1>4, <1>7, ReviewReads

LEMMA ReviewReadHolds == ASSUME ReviewInv, Review!ReadHolds PROVE ReviewInv'
<1>1. /\ read # None /\ read.matches # None
      /\ read' = [read EXCEPT !.holds = Review!Present]
      /\ UNCHANGED <<Review!serverVars, diff, selection, reviewPlace, reviewCalls, reviewMade, torn, answersLost>>
  BY DEF Review!ReadHolds, Review!pageVars
<1>2. read \in DiffsRead /\ diff \in Review!Diffs \cup {None} /\ Review!Present \subseteq New
  BY <1>1 DEF ReviewInv, ReviewTyped, Review!TypeOK, Review!Present
<1>3. read' \in DiffsRead /\ read'.matches = read.matches /\ read'.holds = Review!Present
  BY <1>1, <1>2 DEF DiffsRead
<1>4. read' # None
  BY <1>3, NoneIsNoDiff DEF DiffsRead
<1>5. UNCHANGED <<detection, review, match, diff, reviewPlace, ServedOps, Review!Present>>
  BY <1>1 DEF Review!serverVars, ServedOps, Review!Present
<1>6. ReadIsFresh'
  BY <1>1, <1>3, <1>5 DEF ReviewInv, ReadIsFresh
<1>7. ShownIsFresh'
  BY <1>1, <1>4, <1>5 DEF ReviewInv, ShownIsFresh
<1> QED
  BY <1>1, <1>2, <1>3, <1>6, <1>7, ReviewReads

LEMMA ReviewReadStatus == ASSUME ReviewInv, Review!ReadStatus PROVE ReviewInv'
<1>1. /\ read # None /\ read.holds # None
      /\ diff' = [matches |-> read.matches, holds |-> read.holds, status |-> detection]
      /\ read' = None
      /\ UNCHANGED <<Review!serverVars, selection, reviewPlace, reviewCalls, reviewMade, torn, answersLost>>
  BY DEF Review!ReadStatus, Review!pageVars
<1>2. read \in DiffsRead /\ read.matches # None /\ detection \in {"processing", "done", "failed"}
  BY <1>1 DEF ReviewInv, ReviewTyped, Review!TypeOK
<1>3. diff' \in Review!Diffs
  BY <1>1, <1>2 DEF DiffsRead, Review!Diffs
<1>4. UNCHANGED <<detection, match, ServedOps, Review!Present>>
  BY <1>1 DEF Review!serverVars, ServedOps, Review!Present
<1>5. ServedOps = {} /\ ~answersLost /\ ~torn => diff'.matches = match /\ diff'.holds = Review!Present
  BY <1>1, <1>2 DEF ReviewInv, ReadIsFresh
<1>6. diff'.status = detection
  BY <1>1
<1>7. ServedOps = {} /\ ~answersLost /\ ~torn => Review!UpToDate'
  BY <1>4, <1>5, <1>6 DEF Review!UpToDate
<1>8. ShownIsFresh'
  BY <1>1, <1>4, <1>6, <1>7 DEF ShownIsFresh
<1>9. ReadIsFresh'
  BY <1>1 DEF ReadIsFresh
<1> QED
  BY <1>1, <1>3, <1>8, <1>9, ReviewReads

\* The worker changes what a diff shows only while the page waits for it.
LEMMA ReviewWorkerFinishes == ASSUME ReviewInv, Review!WorkerFinishes PROVE ReviewInv'
<1>1. /\ detection = "processing" /\ detection' \in {"done", "failed"}
      /\ UNCHANGED <<review, read, due, diff, selection, reviewPlace, reviewCalls, reviewMade, answersLost>>
      /\ torn' <=> (torn \/ read # None)
  BY DEF Review!WorkerFinishes, Review!pageVars
<1>2. match' \in [Old -> New \cup {None}] /\ hold' \in [New -> {"unused", "present", "deleted"}]
  <2>1. match \in [Old -> New \cup {None}] /\ hold \in [New -> {"unused", "present", "deleted"}]
    BY DEF ReviewInv, ReviewTyped, Review!TypeOK
  <2>2. CASE detection' = "failed"
    <3>1. UNCHANGED <<hold, match>>
      BY <2>2 DEF Review!WorkerFinishes
    <3> QED
      BY <2>1, <3>1
  <2>3. CASE detection' # "failed"
    <3>1. PICK found \in SUBSET New :
            /\ hold' = [n \in New |-> IF n \in found THEN "present" ELSE hold[n]]
            /\ match' \in [Old -> found \cup {None}]
      BY <2>3 DEF Review!WorkerFinishes
    <3>2. hold' \in [New -> {"unused", "present", "deleted"}]
      BY <2>1, <3>1
    <3>3. match' \in [Old -> New \cup {None}]
      BY <3>1
    <3> QED
      BY <3>2, <3>3
  <2> QED
    BY <2>2, <2>3
<1>3. ReviewTyped'
  BY <1>1, <1>2 DEF ReviewInv, ReviewTyped, Review!TypeOK
<1>4. ReadIsFresh'
  BY <1>1 DEF ReadIsFresh
<1>5. ShownIsFresh'
  BY <1>1 DEF ReviewInv, ShownIsFresh
<1>6. Review!RequestsPairOldAndNew' /\ DecisionsHold'
  BY <1>1 DEF ReviewInv, Review!RequestsPairOldAndNew, DecisionsHold, ServedOps
<1> QED
  BY <1>3, <1>4, <1>5, <1>6 DEF ReviewInv

\* Sending a request changes which is the newest, and not what has been served.
LEMMA ReviewSend ==
    ASSUME ReviewInv, NEW op \in Review!Edits \cup {"apply", "discard"},
           NEW old \in Old \cup {None}, NEW new \in New \cup {None},
           op \in {"match", "restore"} => old \in Old, op = "delete" => new \in New,
           Review!Send(op, old, new),
           UNCHANGED <<Review!serverVars, read, due, diff, reviewPlace, torn, answersLost>>,
           selection' \in {selection, None}
    PROVE  ReviewInv'
<1> DEFINE demoted(c) == [c EXCEPT !.newest = FALSE]
           sent == [id |-> reviewMade', op |-> op, old |-> old, new |-> new, step |-> "sent", newest |-> TRUE]
<1>1. /\ reviewMade' = reviewMade + 1
      /\ reviewCalls' = {IF c.op = op THEN demoted(c) ELSE c : c \in reviewCalls} \cup {sent}
  BY DEF Review!Send
<1>2. reviewMade \in Nat /\ reviewCalls \subseteq Requests
  BY DEF ReviewInv, ReviewTyped
<1>3. \A c \in reviewCalls :
        /\ demoted(c) \in Requests
        /\ demoted(c).op = c.op /\ demoted(c).old = c.old /\ demoted(c).new = c.new /\ demoted(c).step = c.step
  BY <1>2 DEF Requests
<1>4. /\ sent \in Requests /\ sent.step = "sent"
      /\ sent.op = op /\ sent.old = old /\ sent.new = new
  BY <1>1, <1>2 DEF Requests
<1> HIDE DEF demoted, sent
<1>5. UNCHANGED <<detection, review, match, hold, read, due, diff, reviewPlace, torn, answersLost>>
  BY DEF Review!serverVars
<1>6. reviewCalls' \subseteq Requests
  BY <1>1, <1>2, <1>3, <1>4
<1>7. ReviewTyped'
  <2>1. reviewMade' \in Nat
    BY <1>1, <1>2
  <2>2. Review!TypeOK'
    BY <1>5 DEF ReviewInv, ReviewTyped, Review!TypeOK
  <2>3. selection' # None => MarkIsRight(selection')
    BY DEF ReviewInv, ReviewTyped, MarkIsRight
  <2> QED
    BY <1>5, <1>6, <2>1, <2>2, <2>3 DEF ReviewInv, ReviewTyped, MarkIsRight
<1>8. Review!RequestsPairOldAndNew'
  <2> SUFFICES ASSUME NEW c \in reviewCalls'
               PROVE  /\ c.op \in {"match", "restore"} => c.old \in Old
                      /\ c.op = "match" => c.new \in New \cup {None}
                      /\ c.op = "delete" => c.new \in New
    BY DEF Review!RequestsPairOldAndNew
  <2>1. CASE c = sent
    BY <1>4, <2>1
  <2>2. CASE c # sent
    <3>1. PICK d \in reviewCalls : c.op = d.op /\ c.old = d.old /\ c.new = d.new
      BY <1>1, <1>3, <2>2
    <3> QED
      BY <3>1 DEF ReviewInv, Review!RequestsPairOldAndNew
  <2> QED
    BY <2>1, <2>2
<1>9. ServedOps' = ServedOps
  <2>1. ASSUME NEW c \in reviewCalls', c.step = "served" PROVE c.op \in ServedOps
    <3>1. PICK d \in reviewCalls : c.op = d.op /\ c.step = d.step
      BY <1>1, <1>3, <1>4, <2>1
    <3> QED
      BY <2>1, <3>1 DEF ServedOps
  <2>2. ASSUME NEW c \in reviewCalls, c.step = "served" PROVE c.op \in ServedOps'
    <3>1. PICK d \in reviewCalls' : c.op = d.op /\ c.step = d.step
      BY <1>1, <1>3, <2>2
    <3> QED
      BY <2>2, <3>1 DEF ServedOps
  <2> QED
    BY <2>1, <2>2 DEF ServedOps
<1>10. ReadIsFresh' /\ ShownIsFresh' /\ DecisionsHold'
  <2>1. Review!Present' = Review!Present
    BY <1>5 DEF Review!Present
  <2> QED
    BY <1>5, <1>9, <2>1 DEF ReviewInv, ReadIsFresh, ShownIsFresh, DecisionsHold, Review!UpToDate
<1> QED
  BY <1>7, <1>8, <1>10 DEF ReviewInv

\* The marks of a diff, and the requests that two taps make.
LEMMA MarksAreRight ==
    ASSUME NEW d \in Review!Diffs, NEW mark \in Review!Marks(d)
    PROVE  MarkIsRight(mark)
<1>1. d.holds \subseteq New
  BY DEF Review!Diffs
<1>2. CASE \E o \in Old : mark = [kind |-> "removed", hold |-> o, old |-> None]
  BY <1>2 DEF MarkIsRight, Review!Kinds
<1>3. CASE \E n \in d.holds : mark = [kind |-> "new", hold |-> n, old |-> None]
  BY <1>1, <1>3 DEF MarkIsRight, Review!Kinds
<1>4. CASE \E n \in d.holds :
            Review!MatchedOf(d, n) # {} /\ mark = [kind |-> "kept", hold |-> n,
                                                   old |-> CHOOSE o \in Review!MatchedOf(d, n) : TRUE]
  <2>1. PICK n \in d.holds :
            Review!MatchedOf(d, n) # {} /\ mark = [kind |-> "kept", hold |-> n,
                                                   old |-> CHOOSE o \in Review!MatchedOf(d, n) : TRUE]
    BY <1>4
  <2>2. (CHOOSE o \in Review!MatchedOf(d, n) : TRUE) \in Old
    BY <2>1 DEF Review!MatchedOf
  <2> QED
    BY <1>1, <2>1, <2>2 DEF MarkIsRight, Review!Kinds
<1> QED
  BY <1>2, <1>3, <1>4 DEF Review!Marks

LEMMA TapsPair ==
    ASSUME NEW a, NEW b, MarkIsRight(a), MarkIsRight(b), Review!Pairs(a, b)
    PROVE  Review!Pair(a, b).old \in Old /\ Review!Pair(a, b).new \in New
<1>1. \/ a.kind = "removed" /\ b.kind = "new"
      \/ a.kind = "new" /\ b.kind = "removed"
      \/ a.kind = "kept" /\ b.kind = "new"
  BY DEF Review!Pairs
<1> QED
  BY <1>1 DEF MarkIsRight, Review!Pair

LEMMA ReviewTaps ==
    ASSUME ReviewInv,
           UNCHANGED <<Review!serverVars, read, due, diff, reviewCalls, reviewMade, torn, answersLost>>,
           reviewPlace' = reviewPlace,
           selection' # None => MarkIsRight(selection')
    PROVE  ReviewInv'
<1>1. UNCHANGED <<detection, review, match, hold>>
  BY DEF Review!serverVars
<1>2. ReviewTyped' /\ Review!RequestsPairOldAndNew'
  BY <1>1 DEF ReviewInv, ReviewTyped, Review!TypeOK, Review!RequestsPairOldAndNew
<1>3. UNCHANGED <<ServedOps, Review!Present>>
  BY <1>1 DEF ServedOps, Review!Present
<1>4. ReadIsFresh' /\ ShownIsFresh' /\ DecisionsHold'
  BY <1>1, <1>3 DEF ReviewInv, ReadIsFresh, ShownIsFresh, DecisionsHold, Review!UpToDate
<1> QED
  BY <1>2, <1>4 DEF ReviewInv

LEMMA ReviewSelectHold == ASSUME ReviewInv, Review!SelectHold PROVE ReviewInv'
<1>1. PICK mark \in Review!Marks(diff) :
        IF selection # None /\ Review!Pairs(selection, mark)
        THEN /\ Review!Send("match", Review!Pair(selection, mark).old, Review!Pair(selection, mark).new)
             /\ Review!ClearSelection
        ELSE Review!Select(mark)
  BY DEF Review!SelectHold
<1>2. MarkIsRight(mark)
  BY MarksAreRight DEF Review!SelectHold, ReviewInv, ReviewTyped, Review!TypeOK
<1>3. CASE selection # None /\ Review!Pairs(selection, mark)
  <2>1. MarkIsRight(selection)
    BY <1>3 DEF ReviewInv, ReviewTyped
  <2>2. Review!Pair(selection, mark).old \in Old /\ Review!Pair(selection, mark).new \in New
    BY <1>2, <1>3, <2>1, TapsPair
  <2>3. "match" \in Review!Edits
    BY DEF Review!Edits
  <2> QED
    BY <1>1, <1>3, <2>2, <2>3, ReviewSend DEF Review!ClearSelection
<1>4. CASE ~(selection # None /\ Review!Pairs(selection, mark))
  BY <1>1, <1>2, <1>4, ReviewTaps DEF Review!Select
<1> QED
  BY <1>3, <1>4

LEMMA ReviewPanel ==
    ASSUME ReviewInv, \/ Review!MarkChanged \/ Review!RestoreHold \/ Review!DiscardSelectedHold
                      \/ Review!TogglePhoto \/ Review!Apply \/ Review!Discard
    PROVE  ReviewInv'
<1>1. selection # None => MarkIsRight(selection)
  BY DEF ReviewInv, ReviewTyped
<1>2. CASE Review!MarkChanged
  <2>1. selection.old \in Old /\ "match" \in Review!Edits
    BY <1>1, <1>2 DEF Review!MarkChanged, MarkIsRight, Review!Edits
  <2> QED
    BY <1>2, <2>1, ReviewSend DEF Review!MarkChanged, Review!ClearSelection
<1>3. CASE Review!RestoreHold
  <2>1. selection.hold \in Old /\ "restore" \in Review!Edits
    BY <1>1, <1>3 DEF Review!RestoreHold, MarkIsRight, Review!Edits
  <2> QED
    BY <1>3, <2>1, ReviewSend DEF Review!RestoreHold, Review!ClearSelection
<1>4. CASE Review!DiscardSelectedHold
  <2>1. selection.hold \in New /\ "delete" \in Review!Edits
    BY <1>1, <1>4 DEF Review!DiscardSelectedHold, MarkIsRight, Review!Edits
  <2> QED
    BY <1>4, <2>1, ReviewSend DEF Review!DiscardSelectedHold, Review!ClearSelection
<1>5. CASE Review!TogglePhoto
  BY <1>5, ReviewTaps DEF Review!TogglePhoto, Review!ClearSelection
<1>6. CASE Review!Apply
  BY <1>6, ReviewSend DEF Review!Apply, Review!pageVars
<1>7. CASE Review!Discard
  BY <1>7, ReviewSend DEF Review!Discard, Review!pageVars
<1> QED
  BY <1>2, <1>3, <1>4, <1>5, <1>6, <1>7

LEMMA ReviewBack == ASSUME ReviewInv, Review!Back PROVE ReviewInv'
<1>1. /\ reviewPlace' = "elsewhere" /\ read' = None
      /\ UNCHANGED <<detection, review, match, hold, diff, selection, reviewCalls, reviewMade, torn, answersLost>>
  BY DEF Review!Back, Review!serverVars
<1>2. ReviewTyped' /\ Review!RequestsPairOldAndNew'
  BY <1>1 DEF ReviewInv, ReviewTyped, Review!TypeOK, Review!RequestsPairOldAndNew
<1>3. ServedOps' = ServedOps
  BY <1>1 DEF ServedOps
<1>4. ReadIsFresh' /\ DecisionsHold'
  BY <1>1, <1>3 DEF ReviewInv, ReadIsFresh, DecisionsHold
<1>5. ShownIsFresh'
  BY <1>1 DEF ReviewInv, ShownIsFresh
<1> QED
  BY <1>2, <1>4, <1>5 DEF ReviewInv

\* What a request does on the server.
LEMMA ServesTyped ==
    ASSUME ReviewInv, NEW c \in reviewCalls, Review!Serves(c)
    PROVE  /\ detection' = detection
           /\ match' \in [Old -> New \cup {None}] /\ hold' \in [New -> {"unused", "present", "deleted"}]
           /\ review' = CASE c.op = "apply" -> "applied" [] c.op = "discard" -> "discarded" [] OTHER -> review
           /\ review = "pending"
<1>1. /\ detection \in {"processing", "done", "failed"}
      /\ match \in [Old -> New \cup {None}] /\ hold \in [New -> {"unused", "present", "deleted"}]
  BY DEF ReviewInv, ReviewTyped, Review!TypeOK
<1>2. \A old \in Old, new \in New : Review!Upsert(old, new) \in [Old -> New \cup {None}]
  BY <1>1 DEF Review!Upsert
<1>3. c.op \in {"match", "restore"} => c.old \in Old
  BY DEF ReviewInv, Review!RequestsPairOldAndNew
<1>4. Review!Present \subseteq New
  BY DEF Review!Present
<1>5. CASE Review!UpdateResetMatch(c)
  <2>1. /\ c.op = "match" /\ review = "pending"
        /\ match' = [match EXCEPT ![c.old] = None] \/ (c.new \in Review!Present /\ match' = Review!Upsert(c.old, c.new))
        /\ UNCHANGED <<detection, review, hold>>
    BY <1>5 DEF Review!UpdateResetMatch
  <2>2. match' \in [Old -> New \cup {None}]
    BY <1>1, <1>2, <1>3, <1>4, <2>1
  <2> QED
    BY <1>1, <2>1, <2>2
<1>6. CASE Review!RestoreResetHold(c)
  <2>1. PICK n \in New : hold' = [hold EXCEPT ![n] = "present"] /\ match' = Review!Upsert(c.old, n)
    BY <1>6 DEF Review!RestoreResetHold
  <2>2. c.op = "restore" /\ review = "pending" /\ UNCHANGED <<detection, review>>
    BY <1>6 DEF Review!RestoreResetHold
  <2>3. match' \in [Old -> New \cup {None}] /\ hold' \in [New -> {"unused", "present", "deleted"}]
    BY <1>1, <1>2, <1>3, <2>1, <2>2
  <2> QED
    BY <1>1, <2>2, <2>3
<1>7. CASE Review!DeleteResetHold(c)
  <2>1. /\ c.op = "delete" /\ review = "pending" /\ UNCHANGED <<detection, review>>
        /\ hold' = [hold EXCEPT ![c.new] = "deleted"]
        /\ match' = [o \in Old |-> IF match[o] = c.new THEN None ELSE match[o]]
    BY <1>7 DEF Review!DeleteResetHold
  <2>2. match' \in [Old -> New \cup {None}] /\ hold' \in [New -> {"unused", "present", "deleted"}]
    BY <1>1, <2>1
  <2> QED
    BY <1>1, <2>1, <2>2
<1>8. CASE Review!ApplyReset(c)
  BY <1>1, <1>8 DEF Review!ApplyReset
<1>9. CASE Review!DiscardReset(c)
  BY <1>1, <1>9 DEF Review!DiscardReset
<1> QED
  BY <1>5, <1>6, <1>7, <1>8, <1>9 DEF Review!Serves

\* An edit or a decision has been done: an answer is to come, or has been lost.
LEMMA ReviewServe == ASSUME ReviewInv, Review!Serve PROVE ReviewInv'
<1>1. PICK c \in reviewCalls :
        /\ c.step = "sent" /\ Review!Serves(c)
        /\ \/ Review!Served(c) /\ UNCHANGED answersLost
           \/ reviewCalls' = reviewCalls \ {c} /\ answersLost' = TRUE
        /\ UNCHANGED <<read, due, diff, selection, reviewPlace, reviewMade, torn>>
  BY DEF Review!Serve, Review!pageVars
<1> DEFINE done == [c EXCEPT !.step = "served"]
<1>2. c \in Requests /\ reviewCalls \subseteq Requests
  BY DEF ReviewInv, ReviewTyped
<1>3. done \in Requests /\ done.op = c.op /\ done.old = c.old /\ done.new = c.new /\ done.step = "served"
  BY <1>2 DEF Requests
<1>4. \/ reviewCalls' = (reviewCalls \ {c}) \cup {done} /\ UNCHANGED answersLost
      \/ reviewCalls' = reviewCalls \ {c} /\ answersLost' = TRUE
  BY <1>1 DEF Review!Served
<1> HIDE DEF done
<1>5. /\ detection' = detection
      /\ match' \in [Old -> New \cup {None}] /\ hold' \in [New -> {"unused", "present", "deleted"}]
      /\ review' = CASE c.op = "apply" -> "applied" [] c.op = "discard" -> "discarded" [] OTHER -> review
      /\ review = "pending"
  BY <1>1, ServesTyped
<1>6. ReviewTyped'
  <2>1. reviewCalls' \subseteq Requests
    BY <1>2, <1>3, <1>4
  <2> QED
    BY <1>1, <1>5, <2>1 DEF ReviewInv, ReviewTyped, Review!TypeOK
<1>7. Review!RequestsPairOldAndNew'
  BY <1>3, <1>4 DEF ReviewInv, Review!RequestsPairOldAndNew
<1>8. ServedOps' \subseteq ServedOps \cup {c.op}
  BY <1>3, <1>4 DEF ServedOps
<1>9. ServedOps' # {} \/ answersLost'
  <2>1. done \in reviewCalls' => done.op \in ServedOps'
    BY <1>3 DEF ServedOps
  <2> QED
    BY <1>4, <2>1
<1>10. ReadIsFresh' /\ ShownIsFresh'
  BY <1>1, <1>5, <1>9 DEF ReviewInv, ReadIsFresh, ShownIsFresh
<1>11. DecisionsHold'
  BY <1>1, <1>5, <1>8 DEF ReviewInv, DecisionsHold
<1> QED
  BY <1>6, <1>7, <1>10, <1>11 DEF ReviewInv

\* A refusal writes nothing.
LEMMA ReviewRefuse == ASSUME ReviewInv, Review!Refuse PROVE ReviewInv'
<1>1. PICK c \in reviewCalls :
        /\ c.step = "sent" /\ reviewCalls' = reviewCalls \ {c}
        /\ UNCHANGED <<detection, review, match, hold, read, due, diff, selection, reviewPlace, reviewMade,
                       torn, answersLost>>
  BY DEF Review!Refuse, Review!serverVars, Review!pageVars
<1>2. ReviewTyped' /\ Review!RequestsPairOldAndNew'
  BY <1>1 DEF ReviewInv, ReviewTyped, Review!TypeOK, Review!RequestsPairOldAndNew
<1>3. ServedOps' = ServedOps
  BY <1>1 DEF ServedOps
<1>4. Review!Present' = Review!Present
  BY <1>1 DEF Review!Present
<1>5. ReadIsFresh' /\ ShownIsFresh' /\ DecisionsHold'
  BY <1>1, <1>3, <1>4 DEF ReviewInv, ReadIsFresh, ShownIsFresh, DecisionsHold, Review!UpToDate
<1> QED
  BY <1>2, <1>5 DEF ReviewInv

\* An answer drops the fetch under way and makes another due.
LEMMA ReviewAnswer == ASSUME ReviewInv, Review!Answer PROVE ReviewInv'
<1>1. PICK c \in reviewCalls :
        /\ c.step = "served" /\ reviewCalls' = reviewCalls \ {c}
        /\ due' = TRUE /\ read' = None
        /\ reviewPlace' = IF reviewPlace = "page" /\ c.op \notin Review!Edits THEN "wall" ELSE reviewPlace
        /\ UNCHANGED <<detection, review, match, hold, diff, selection, reviewMade, torn, answersLost>>
  BY DEF Review!Answer, Review!serverVars
<1>2. ReviewTyped' /\ Review!RequestsPairOldAndNew'
  BY <1>1 DEF ReviewInv, ReviewTyped, Review!TypeOK, Review!RequestsPairOldAndNew
<1>3. ServedOps' \subseteq ServedOps /\ c.op \in ServedOps
  BY <1>1 DEF ServedOps
<1>4. c.op \notin Review!Edits => c.op \in {"apply", "discard"}
  BY DEF ReviewInv, ReviewTyped, Requests
<1>5. ReadIsFresh' /\ ShownIsFresh'
  BY <1>1 DEF ReviewInv, ReadIsFresh, ShownIsFresh
<1>6. DecisionsHold'
  BY <1>1, <1>3, <1>4 DEF ReviewInv, DecisionsHold
<1> QED
  BY <1>2, <1>5, <1>6 DEF ReviewInv

LEMMA ReviewNext == ReviewInv /\ Review!Next => ReviewInv'
BY ReviewFetch, ReviewReadMatches, ReviewReadHolds, ReviewReadStatus, ReviewWorkerFinishes, ReviewSelectHold,
   ReviewPanel, ReviewBack, ReviewServe, ReviewRefuse, ReviewAnswer DEF Review!Next

LEMMA ReviewSettles ==
    ReviewInv => /\ Review!RequestsPairOldAndNew /\ Review!SettledPageIsUpToDate /\ Review!DecisionsStand
                 /\ Review!TypeOK
<1> SUFFICES ASSUME ReviewInv
             PROVE  /\ Review!RequestsPairOldAndNew /\ Review!SettledPageIsUpToDate /\ Review!DecisionsStand
                    /\ Review!TypeOK
  OBVIOUS
<1>1. reviewCalls = {} => ServedOps = {}
  BY DEF ServedOps
<1>2. Review!SettledPageIsUpToDate
  BY <1>1 DEF ReviewInv, ShownIsFresh, Review!SettledPageIsUpToDate, Review!Settled, Review!IsDetecting
<1>3. Review!DecisionsStand
  <2>1. ASSUME NEW c \in reviewCalls, c.step = "served" PROVE c.op \in ServedOps
    BY <2>1 DEF ServedOps
  <2> QED
    BY <2>1 DEF ReviewInv, DecisionsHold, Review!DecisionsStand
<1> QED
  BY <1>2, <1>3 DEF ReviewInv, ReviewTyped

\* A match that is asked for joins an old hold to a new one; a review that has settled
\* shows the reset as it is; and of apply and discard one is done, the one that is
\* answered: however the taps, the edits, their answers, the fetches of the diff and the
\* worker interleave, for any holds and any number of requests.
THEOREM ReviewTruthful == PagesSpec => []ReviewIsTruthful
<1> DEFINE IInv == screen = "review" => ReviewInv
<1>1. PagesInit => IInv
  BY ReviewInit DEF PagesInit
<1>2. IInv /\ [PagesNext]_pages => IInv'
  <2> SUFFICES ASSUME IInv, [PagesNext]_pages PROVE IInv'
    OBVIOUS
  <2>1. screen' = screen
    BY DEF PagesNext, pages
  <2>2. CASE UNCHANGED pages
    BY <2>1, <2>2, ReviewIdle DEF pages
  <2>3. CASE PagesNext
    <3>1. screen = "review" => Review!Next
      BY <2>3 DEF PagesNext, Editing, Caching, Shooting, Listing, Reviewing, Logging, Reading, Ordering,
         Picturing, Storing, Counting
    <3> QED
      BY <2>1, <3>1, ReviewNext
  <2> QED
    BY <2>2, <2>3
<1>3. IInv => ReviewIsTruthful
  BY ReviewSettles DEF ReviewIsTruthful
<1> QED
  BY <1>1, <1>2, <1>3, PTL DEF PagesSpec

-----------------------------------------------------------------------------
(* The picture of an account.                                              *)

PictureCalls ==
    [id : Nat, by : {"page", "other"}, op : {"set", "clear", "sync"}, old : Nat \cup {None},
     step : {"read", "stored", "updated", "done", "refused"}]

\* Requests are numbered, and so are the keys.
PictureTyped ==
    /\ avatarMade \in Nat /\ unknown \in Nat
    /\ avatarKey \in (0..avatarMade) \cup {None}
    /\ objects \subseteq 0..avatarMade
    /\ avatarCalls \subseteq PictureCalls
    /\ \A c \in avatarCalls :
        c.id \in 1..avatarMade /\ c.old \in (0..avatarMade) \cup {None} /\ (c.op = "clear" => c.step # "stored")
    /\ \A c, d \in avatarCalls : c.id = d.id => c = d

\* The key of a request that has not updated the row yet is its own secret.
KeysAreFresh ==
    \A c \in avatarCalls : c.step \in {"read", "stored"} =>
        c.id # avatarKey /\ \A d \in avatarCalls : d.old # c.id

\* What a request is about to delete, the row names no more.
OldIsReplaced ==
    \A c \in avatarCalls : c.step = "updated" /\ c.old # None => avatarKey # c.old

NewIsStored == \A c \in avatarCalls : c.step = "stored" => c.id \in objects

\* Of requests that come one after the other, the one under way accounts for what is
\* stored beside the picture.
OnlyItsOwn ==
    ~leaks =>
        /\ \A c, d \in avatarCalls : c = d
        /\ avatarCalls = {} => objects = {avatarKey} \ {None}
        /\ \A c \in avatarCalls :
            /\ c.step \in {"read", "stored"} => c.old = avatarKey
            /\ objects = (CASE c.step = "stored" -> {avatarKey, c.id}
                            [] c.step = "updated" -> {avatarKey, c.old}
                            [] OTHER -> {avatarKey}) \ {None}

PictureInv ==
    /\ PictureTyped /\ KeysAreFresh /\ OldIsReplaced /\ NewIsStored /\ OnlyItsOwn
    /\ Picture!PictureIsStored


LEMMA PictureInit == Picture!Init => PictureInv
<1> SUFFICES ASSUME Picture!Init PROVE PictureInv
  OBVIOUS
<1> USE NoneIsNoNumber
<1>1. PictureTyped
  BY DEF Picture!Init, PictureTyped
<1>2. OnlyItsOwn
  BY DEF Picture!Init, OnlyItsOwn
<1> QED
  BY <1>1, <1>2 DEF Picture!Init, PictureInv, KeysAreFresh, OldIsReplaced, NewIsStored, Picture!PictureIsStored

\* Request x has become y, which is at a step further on.
SteppedTo(x, y, step) ==
    /\ y.id = x.id /\ y.op = x.op /\ y.old = x.old /\ y.step = step
    /\ avatarCalls' = (avatarCalls \ {x}) \cup {y}
    /\ avatarCalls' \subseteq PictureCalls
    /\ \A d \in avatarCalls' :
        d.id \in 1..avatarMade' /\ d.old \in (0..avatarMade') \cup {None} /\ (d.op = "clear" => d.step # "stored")
    /\ \A d, e \in avatarCalls' : d.id = e.id => d = e

LEMMA PictureStep ==
    ASSUME PictureTyped, NEW x \in avatarCalls, NEW step \in {"stored", "updated", "done", "refused"},
           x.op = "clear" => step # "stored",
           Picture!Step(x, step), UNCHANGED avatarMade
    PROVE  \E y \in PictureCalls : SteppedTo(x, y, step)
<1> DEFINE y == [x EXCEPT !.step = step]
<1>1. x \in PictureCalls
  BY DEF PictureTyped
<1>2. y \in PictureCalls /\ y.id = x.id /\ y.op = x.op /\ y.old = x.old /\ y.step = step
  BY <1>1 DEF PictureCalls
<1>3. avatarCalls' = (avatarCalls \ {x}) \cup {y}
  BY DEF Picture!Step
<1> HIDE DEF y
<1>4. avatarCalls' \subseteq PictureCalls
  BY <1>2, <1>3 DEF PictureTyped
<1>5. \A d \in avatarCalls' :
        d.id \in 1..avatarMade' /\ d.old \in (0..avatarMade') \cup {None} /\ (d.op = "clear" => d.step # "stored")
  BY <1>2, <1>3 DEF PictureTyped
<1>6. \A d, e \in avatarCalls' : d.id = e.id => d = e
  BY <1>2, <1>3 DEF PictureTyped
<1> QED
  BY <1>2, <1>3, <1>4, <1>5, <1>6 DEF SteppedTo

LEMMA PictureStore ==
    ASSUME PictureInv, NEW x \in avatarCalls, Picture!Store(x), UNCHANGED avatarMade
    PROVE  PictureInv'
<1> USE NoneIsNoNumber
<1>1. PICK y \in PictureCalls : SteppedTo(x, y, "stored")
  BY PictureStep DEF PictureInv, Picture!Store
<1>2. /\ x.step = "read" /\ objects' = objects \cup {x.id}
      /\ UNCHANGED <<avatarKey, unknown, leaks>>
  BY DEF Picture!Store
<1>3. PictureTyped'
  <2>1. x.id \in 0..avatarMade /\ objects \subseteq 0..avatarMade
    BY DEF PictureInv, PictureTyped
  <2>2. objects' \subseteq 0..avatarMade'
    BY <1>2, <2>1
  <2> QED
    BY <1>1, <1>2, <2>2 DEF PictureInv, PictureTyped, SteppedTo
<1>4. KeysAreFresh'
  BY <1>1, <1>2 DEF PictureInv, KeysAreFresh, SteppedTo
<1>5. OldIsReplaced' /\ NewIsStored' /\ Picture!PictureIsStored'
  BY <1>1, <1>2 DEF PictureInv, OldIsReplaced, NewIsStored, Picture!PictureIsStored, SteppedTo
<1>6. OnlyItsOwn'
  BY <1>1, <1>2 DEF PictureInv, PictureTyped, OnlyItsOwn, SteppedTo
<1> QED
  BY <1>3, <1>4, <1>5, <1>6 DEF PictureInv

LEMMA PictureStoreFails ==
    ASSUME PictureInv, NEW x \in avatarCalls, Picture!StoreFails(x), UNCHANGED avatarMade
    PROVE  PictureInv'
<1> USE NoneIsNoNumber
<1>1. PICK y \in PictureCalls : SteppedTo(x, y, "refused")
  BY PictureStep DEF PictureInv, Picture!StoreFails
<1>2. x.step = "read" /\ UNCHANGED <<avatarKey, objects, unknown, leaks>>
  BY DEF Picture!StoreFails, Picture!rowVars
<1>3. PictureTyped'
  BY <1>1, <1>2 DEF PictureInv, PictureTyped, SteppedTo
<1>4. KeysAreFresh'
  BY <1>1, <1>2 DEF PictureInv, KeysAreFresh, SteppedTo
<1>5. OldIsReplaced' /\ NewIsStored' /\ Picture!PictureIsStored'
  BY <1>1, <1>2 DEF PictureInv, OldIsReplaced, NewIsStored, Picture!PictureIsStored, SteppedTo
<1>6. OnlyItsOwn'
  BY <1>1, <1>2 DEF PictureInv, PictureTyped, OnlyItsOwn, SteppedTo
<1> QED
  BY <1>3, <1>4, <1>5, <1>6 DEF PictureInv

LEMMA PictureUpdate ==
    ASSUME PictureInv, NEW x \in avatarCalls, Picture!UpdateUserAvatar(x), UNCHANGED avatarMade
    PROVE  PictureInv'
<1> USE NoneIsNoNumber
<1>1. PICK y \in PictureCalls : SteppedTo(x, y, "updated")
  BY PictureStep DEF PictureInv, Picture!UpdateUserAvatar
<1>2. /\ x.step = IF x.op = "clear" THEN "read" ELSE "stored"
      /\ avatarKey' = IF x.op = "clear" THEN None ELSE x.id
      /\ UNCHANGED <<objects, unknown, leaks>>
  BY DEF Picture!UpdateUserAvatar, Picture!Updatable, Picture!Updated
<1>3. x.id \in 1..avatarMade /\ x.id # None /\ avatarMade \in Nat
  BY DEF PictureInv, PictureTyped
<1>4. PictureTyped'
  BY <1>1, <1>2, <1>3 DEF PictureInv, PictureTyped, SteppedTo
<1>5. x.id # avatarKey /\ \A d \in avatarCalls : d.old # x.id
  BY <1>2 DEF PictureInv, KeysAreFresh
<1>6. KeysAreFresh'
  <2> SUFFICES ASSUME NEW d \in avatarCalls', d.step \in {"read", "stored"}
               PROVE  d.id # avatarKey' /\ \A e \in avatarCalls' : e.old # d.id
    BY DEF KeysAreFresh
  <2>1. d \in avatarCalls /\ d # x
    BY <1>1 DEF SteppedTo
  <2>2. d.id # x.id /\ d.id # None /\ \A e \in avatarCalls : e.old # d.id
    BY <2>1 DEF PictureInv, PictureTyped, KeysAreFresh
  <2> QED
    BY <1>1, <1>2, <2>2 DEF SteppedTo
<1>7. OldIsReplaced'
  BY <1>1, <1>2, <1>5 DEF PictureInv, OldIsReplaced, SteppedTo
<1>8. NewIsStored' /\ Picture!PictureIsStored'
  BY <1>1, <1>2 DEF PictureInv, NewIsStored, Picture!PictureIsStored, SteppedTo
<1>9. OnlyItsOwn'
  BY <1>1, <1>2, <1>3 DEF PictureInv, OnlyItsOwn, SteppedTo
<1> QED
  BY <1>4, <1>6, <1>7, <1>8, <1>9 DEF PictureInv

\* The new object is deleted, and no other request knows its key.
LEMMA PictureUpdateFails ==
    ASSUME PictureInv, NEW x \in avatarCalls, Picture!UpdateFails(x), UNCHANGED avatarMade
    PROVE  PictureInv'
<1> USE NoneIsNoNumber
<1>1. PICK y \in PictureCalls : SteppedTo(x, y, "refused")
  BY PictureStep DEF PictureInv, Picture!UpdateFails
<1>2. /\ x.step = IF x.op = "clear" THEN "read" ELSE "stored"
      /\ objects' = IF x.op = "clear" THEN objects ELSE objects \ {x.id}
      /\ leaks' = (leaks \/ unknown' # unknown)
      /\ \/ UNCHANGED <<avatarKey, unknown>>
         \/ unknown' = unknown + 1 /\ avatarKey' = IF x.op = "clear" THEN None ELSE x.id
  BY DEF Picture!UpdateFails, Picture!Updatable, Picture!Updated
<1>3. x.id \in 1..avatarMade /\ x.id # None /\ avatarMade \in Nat /\ unknown \in Nat
  BY DEF PictureInv, PictureTyped
<1>4. PictureTyped'
  <2>1. objects' \subseteq 0..avatarMade'
    BY <1>2 DEF PictureInv, PictureTyped
  <2> QED
    BY <1>1, <1>2, <1>3, <2>1 DEF PictureInv, PictureTyped, SteppedTo
<1>5. x.id # avatarKey /\ \A d \in avatarCalls : d.old # x.id
  BY <1>2 DEF PictureInv, KeysAreFresh
<1>6. KeysAreFresh'
  <2> SUFFICES ASSUME NEW d \in avatarCalls', d.step \in {"read", "stored"}
               PROVE  d.id # avatarKey' /\ \A e \in avatarCalls' : e.old # d.id
    BY DEF KeysAreFresh
  <2>1. d \in avatarCalls /\ d # x
    BY <1>1 DEF SteppedTo
  <2>2. d.id # x.id /\ d.id # None /\ d.id # avatarKey /\ \A e \in avatarCalls : e.old # d.id
    BY <2>1 DEF PictureInv, PictureTyped, KeysAreFresh
  <2> QED
    BY <1>1, <1>2, <2>2 DEF SteppedTo
<1>7. OldIsReplaced'
  BY <1>1, <1>2, <1>5 DEF PictureInv, OldIsReplaced, SteppedTo
<1>8. NewIsStored'
  BY <1>1, <1>2 DEF PictureInv, PictureTyped, NewIsStored, SteppedTo
<1>9. Picture!PictureIsStored'
  BY <1>2, <1>3, <1>5 DEF PictureInv, Picture!PictureIsStored
<1>10. OnlyItsOwn'
  <2> SUFFICES ASSUME ~leaks' PROVE OnlyItsOwn'
    BY DEF OnlyItsOwn
  <2>1. ~leaks /\ avatarKey' = avatarKey
    <3>1. ~(leaks \/ unknown' # unknown)
      BY <1>2
    <3> QED
      BY <1>2, <1>3, <3>1
  <2>2. avatarCalls = {x} /\ avatarCalls' = {y}
    BY <1>1, <2>1 DEF PictureInv, OnlyItsOwn, SteppedTo
  <2>3. objects' = {avatarKey} \ {None}
    <3>1. CASE x.op = "clear"
      BY <1>2, <2>1, <3>1 DEF PictureInv, OnlyItsOwn
    <3>2. CASE x.op # "clear"
      <4>1. objects = {avatarKey, x.id} \ {None} /\ objects' = objects \ {x.id}
        BY <1>2, <2>1, <3>2 DEF PictureInv, OnlyItsOwn
      <4> QED
        BY <1>5, <4>1
    <3> QED
      BY <3>1, <3>2
  <2> QED
    BY <1>1, <2>1, <2>2, <2>3 DEF OnlyItsOwn, SteppedTo
<1> QED
  BY <1>4, <1>6, <1>7, <1>8, <1>9, <1>10 DEF PictureInv

LEMMA PictureDeleteOld ==
    ASSUME PictureInv, NEW x \in avatarCalls, Picture!DeleteOld(x), UNCHANGED avatarMade
    PROVE  PictureInv'
<1> USE NoneIsNoNumber
<1>1. PICK y \in PictureCalls : SteppedTo(x, y, "done")
  BY PictureStep DEF PictureInv, Picture!DeleteOld
<1>2. /\ x.step = "updated" /\ objects' = objects \ {x.old}
      /\ UNCHANGED <<avatarKey, unknown, leaks>>
  BY DEF Picture!DeleteOld
<1>3. PictureTyped'
  <2>1. objects' \subseteq 0..avatarMade'
    BY <1>2 DEF PictureInv, PictureTyped
  <2> QED
    BY <1>1, <1>2, <2>1 DEF PictureInv, PictureTyped, SteppedTo
<1>4. KeysAreFresh'
  BY <1>1, <1>2 DEF PictureInv, KeysAreFresh, SteppedTo
<1>5. OldIsReplaced'
  BY <1>1, <1>2 DEF PictureInv, OldIsReplaced, SteppedTo
<1>6. NewIsStored'
  BY <1>1, <1>2 DEF PictureInv, KeysAreFresh, NewIsStored, SteppedTo
<1>7. Picture!PictureIsStored'
  BY <1>2 DEF PictureInv, OldIsReplaced, Picture!PictureIsStored
<1>8. OnlyItsOwn'
  BY <1>1, <1>2 DEF PictureInv, OldIsReplaced, OnlyItsOwn, SteppedTo
<1> QED
  BY <1>3, <1>4, <1>5, <1>6, <1>7, <1>8 DEF PictureInv

LEMMA PictureDeleteFails ==
    ASSUME PictureInv, NEW x \in avatarCalls, Picture!DeleteFails(x), UNCHANGED avatarMade
    PROVE  PictureInv'
<1> USE NoneIsNoNumber
<1>1. PICK y \in PictureCalls : SteppedTo(x, y, "done")
  BY PictureStep DEF PictureInv, Picture!DeleteFails
<1>2. x.step = "updated" /\ leaks' /\ UNCHANGED <<avatarKey, objects, unknown>>
  BY DEF Picture!DeleteFails, Picture!rowVars
<1>3. PictureTyped'
  BY <1>1, <1>2 DEF PictureInv, PictureTyped, SteppedTo
<1>4. KeysAreFresh'
  BY <1>1, <1>2 DEF PictureInv, KeysAreFresh, SteppedTo
<1>5. OldIsReplaced' /\ NewIsStored' /\ Picture!PictureIsStored' /\ OnlyItsOwn'
  BY <1>1, <1>2 DEF PictureInv, OldIsReplaced, NewIsStored, Picture!PictureIsStored, OnlyItsOwn, SteppedTo
<1> QED
  BY <1>3, <1>4, <1>5 DEF PictureInv

\* A new request reads the row; its number is nobody's key yet.
LEMMA PictureRequest ==
    ASSUME PictureInv, NEW by \in {"page", "other"}, NEW op \in {"set", "clear", "sync"},
           Picture!Request(by, op), UNCHANGED <<avatarKey, objects, unknown>>
    PROVE  PictureInv'
<1> USE NoneIsNoNumber
<1> DEFINE n == [id |-> avatarMade + 1, by |-> by, op |-> op, old |-> avatarKey, step |-> "read"]
<1>1. /\ avatarMade' = avatarMade + 1
      /\ avatarCalls' = avatarCalls \cup {n}
      /\ leaks' = (leaks \/ avatarCalls # {})
  BY DEF Picture!Request
<1>2. /\ avatarMade \in Nat /\ n \in PictureCalls
      /\ n.id = avatarMade + 1 /\ n.op = op /\ n.old = avatarKey /\ n.step = "read"
      /\ n.id \in 1..avatarMade' /\ n.old \in (0..avatarMade') \cup {None}
  BY <1>1 DEF PictureInv, PictureTyped, PictureCalls
<1> HIDE DEF n
<1>3. \A d \in avatarCalls :
        /\ d.id \in 1..avatarMade' /\ d.old \in (0..avatarMade') \cup {None}
        /\ d.id # n.id /\ d.old # n.id /\ n.id # avatarKey
  BY <1>1, <1>2 DEF PictureInv, PictureTyped
<1>4. PictureTyped'
  <2>1. objects' \subseteq 0..avatarMade' /\ avatarKey' \in (0..avatarMade') \cup {None}
    BY <1>1, <1>2 DEF PictureInv, PictureTyped
  <2>2. /\ avatarCalls' \subseteq PictureCalls
        /\ \A d \in avatarCalls' :
            d.id \in 1..avatarMade' /\ d.old \in (0..avatarMade') \cup {None} /\ (d.op = "clear" => d.step # "stored")
    BY <1>1, <1>2, <1>3 DEF PictureInv, PictureTyped
  <2>3. \A d, e \in avatarCalls' : d.id = e.id => d = e
    BY <1>1, <1>2, <1>3 DEF PictureInv, PictureTyped
  <2> QED
    BY <1>1, <1>2, <2>1, <2>2, <2>3 DEF PictureInv, PictureTyped
<1>5. n.id # avatarKey
  BY <1>2 DEF PictureInv, PictureTyped
<1>6. KeysAreFresh'
  BY <1>1, <1>2, <1>3, <1>5 DEF PictureInv, KeysAreFresh
<1>7. OldIsReplaced' /\ NewIsStored' /\ Picture!PictureIsStored'
  BY <1>1, <1>2 DEF PictureInv, OldIsReplaced, NewIsStored, Picture!PictureIsStored
<1>8. OnlyItsOwn'
  BY <1>1, <1>2 DEF PictureInv, OnlyItsOwn
<1> QED
  BY <1>4, <1>6, <1>7, <1>8 DEF PictureInv

\* An answer ends a request.
LEMMA PictureAnswer ==
    ASSUME PictureInv, Picture!Answer
    PROVE  PictureInv'
<1> USE NoneIsNoNumber
<1>1. PICK x \in avatarCalls :
        /\ x.step \in {"done", "refused"} /\ avatarCalls' = avatarCalls \ {x}
        /\ UNCHANGED <<avatarKey, objects, avatarMade, unknown, leaks>>
  BY DEF Picture!Answer, Picture!rowVars
<1>2. PictureTyped'
  BY <1>1 DEF PictureInv, PictureTyped
<1>3. KeysAreFresh' /\ OldIsReplaced' /\ NewIsStored' /\ Picture!PictureIsStored'
  BY <1>1 DEF PictureInv, KeysAreFresh, OldIsReplaced, NewIsStored, Picture!PictureIsStored
<1>4. OnlyItsOwn'
  BY <1>1 DEF PictureInv, OnlyItsOwn
<1> QED
  BY <1>2, <1>3, <1>4 DEF PictureInv

LEMMA PictureIdle ==
    ASSUME PictureInv, UNCHANGED <<avatarKey, objects, avatarCalls, avatarMade, unknown, leaks>>
    PROVE  PictureInv'
BY DEF PictureInv, PictureTyped, KeysAreFresh, OldIsReplaced, NewIsStored, OnlyItsOwn, Picture!PictureIsStored

LEMMA PictureNext == PictureInv /\ Picture!Next => PictureInv'
<1> SUFFICES ASSUME PictureInv, Picture!Next PROVE PictureInv'
  OBVIOUS
<1>1. CASE Picture!Serve
  <2>1. PICK x \in avatarCalls :
            \/ Picture!Store(x) \/ Picture!StoreFails(x) \/ Picture!UpdateUserAvatar(x)
            \/ Picture!UpdateFails(x) \/ Picture!DeleteOld(x) \/ Picture!DeleteFails(x)
    BY <1>1 DEF Picture!Serve
  <2>2. UNCHANGED avatarMade
    BY <1>1 DEF Picture!Serve
  <2> QED
    BY <2>1, <2>2, PictureStore, PictureStoreFails, PictureUpdate, PictureUpdateFails,
       PictureDeleteOld, PictureDeleteFails
<1>2. CASE Picture!SyncPicture
  BY <1>2, PictureRequest DEF Picture!SyncPicture, Picture!rowVars
<1>3. CASE Picture!OtherDevice
  BY <1>3, PictureRequest DEF Picture!OtherDevice, Picture!rowVars
<1>4. CASE Picture!ChooseFile
  BY <1>4, PictureIdle DEF Picture!ChooseFile, Picture!rowVars
<1>5. CASE Picture!Prepared
  BY <1>5, PictureRequest, PictureIdle DEF Picture!Prepared, Picture!rowVars
<1>6. CASE Picture!RemovePicture
  BY <1>6, PictureRequest DEF Picture!RemovePicture, Picture!rowVars
<1>7. CASE Picture!Answer
  BY <1>7, PictureAnswer
<1> QED
  BY <1>1, <1>2, <1>3, <1>4, <1>5, <1>6, <1>7 DEF Picture!Next

LEMMA PictureIsKept == PictureInv => Picture!PictureIsStored /\ Picture!NothingIsLeft
BY DEF PictureInv, OnlyItsOwn, Picture!NothingIsLeft

-----------------------------------------------------------------------------
(* The photos of a wall.                                                   *)

Images == [key : Nat, status : {"active", "old", "pending"}]

Uploads ==
    [key : Nat, mode : {"full", "partial", "discard"}, parent : SUBSET Images,
     step : {"new", "stored", "checking", "cleaning", "discarding"}, junk : SUBSET Nat]

\* Keys are numbered, and a row has a key of its own.
PhotosTyped ==
    /\ photosMade \in Nat /\ late \in BOOLEAN
    /\ photoRows \subseteq Images
    /\ \A r, s \in photoRows : r.key = s.key => r = s
    /\ photoRequests \subseteq Uploads /\ photosOpen \subseteq Uploads
    /\ \A q \in photoRequests : q.key \in 0..photosMade /\ q.junk \subseteq 0..photosMade
    /\ Photos!KeysOf(photoRows) \cup Photos!KeysOf(photosOpen) \cup photoObjects \cup queue \subseteq 0..photosMade
    /\ taken \subseteq photosDue /\ photosDue \subseteq queue

\* At most one image is active, at most one pending, and one transaction open.
OneOfEach ==
    /\ \A r, s \in Photos!Active : r = s
    /\ \A r, s \in Photos!Pending : r = s
    /\ \A p, q \in photosOpen : p = q

\* Until its transaction, the key of an upload is nobody else's; the object is there once
\* it is stored.
UploadsAreFresh ==
    \A q \in photoRequests :
        /\ q.step \in {"new", "stored"} =>
            /\ q.key \notin Photos!KeysOf(photoRows) \cup Photos!KeysOf(photosOpen) \cup queue
            /\ \A p \in photoRequests : q.key \notin p.junk /\ (p.key = q.key => p = q)
        /\ q.step = "new" => q.key \notin photoObjects
        /\ q.step = "stored" => q.key \in photoObjects
        /\ q.step \in {"new", "stored", "checking"} => q.junk = {}

\* While a commit is unanswered, no row names its key yet.
OpenIsUnsaved == \A q \in photosOpen : q.key \notin Photos!KeysOf(photoRows)

\* What is to be deleted, no row names.
DoomedAreUnnamed ==
    ~late =>
        /\ Photos!KeysOf(photoRows) \cap queue = {}
        /\ \A q \in photoRequests : Photos!KeysOf(photoRows) \cap q.junk = {}

RowsAreStored == ~late => Photos!KeysOf(photoRows) \subseteq photoObjects

\* The key that a request answers for: its own, until a row may name it.
Holds(q) == q.junk \cup (IF q.step \in {"new", "stored", "checking"} THEN {q.key} ELSE {})

Held == UNION {Holds(q) : q \in photoRequests}

ObjectsAreHeld == photoObjects \subseteq Photos!KeysOf(photoRows) \cup queue \cup left \cup Held

PhotosInv ==
    /\ PhotosTyped /\ OneOfEach /\ UploadsAreFresh /\ OpenIsUnsaved
    /\ DoomedAreUnnamed /\ RowsAreStored /\ ObjectsAreHeld

LEMMA PhotosInit == Photos!Init => PhotosInv
<1> SUFFICES ASSUME Photos!Init PROVE PhotosInv
  OBVIOUS
<1>1. photoRows = {} \/ photoRows = {[key |-> 0, status |-> "active"]}
  BY DEF Photos!Init
<1>2. /\ photoRows \subseteq Images
      /\ \A r, s \in photoRows : r = s
      /\ Photos!KeysOf(photoRows) \subseteq {0}
  BY <1>1 DEF Images, Photos!KeysOf
<1>3. /\ photoObjects = Photos!KeysOf(photoRows) /\ Photos!KeysOf(photosOpen) = {}
      /\ queue = {} /\ photosDue = {} /\ taken = {} /\ photoRequests = {} /\ photosOpen = {}
      /\ photosMade = 0
  BY DEF Photos!Init, Photos!KeysOf
<1>4. late \in BOOLEAN
  BY DEF Photos!Init
<1>5. PhotosTyped
  BY <1>2, <1>3, <1>4 DEF PhotosTyped
<1> QED
  BY <1>2, <1>3, <1>5 DEF PhotosInv, OneOfEach, UploadsAreFresh, OpenIsUnsaved, DoomedAreUnnamed,
     RowsAreStored, ObjectsAreHeld, Photos!Active, Photos!Pending

\* Request x has become y, which is at a step further on.
BecomesOf(x, y, step, junk) ==
    /\ y.key = x.key /\ y.step = step /\ y.junk = junk
    /\ photoRequests' = (photoRequests \ {x}) \cup {y}
    /\ photoRequests' \subseteq Uploads
    /\ \A q \in photoRequests' : q.key \in 0..photosMade' /\ q.junk \subseteq 0..photosMade'

LEMMA PhotosBecome ==
    ASSUME PhotosTyped, NEW x \in photoRequests,
           NEW step \in {"stored", "checking", "cleaning"}, NEW junk \in SUBSET (0..photosMade),
           Photos!Become(x, step, junk), UNCHANGED photosMade
    PROVE  \E y \in Uploads : BecomesOf(x, y, step, junk)
<1> DEFINE y == [x EXCEPT !.step = step, !.junk = junk]
<1>1. x \in Uploads /\ x.key \in 0..photosMade /\ junk \in SUBSET Nat
  BY DEF PhotosTyped
<1>2. y \in Uploads /\ y.key = x.key /\ y.step = step /\ y.junk = junk
  BY <1>1 DEF Uploads
<1>3. photoRequests' = (photoRequests \ {x}) \cup {y}
  BY DEF Photos!Become
<1> HIDE DEF y
<1>4. photoRequests' \subseteq Uploads
  BY <1>2, <1>3 DEF PhotosTyped
<1>5. \A q \in photoRequests' : q.key \in 0..photosMade' /\ q.junk \subseteq 0..photosMade'
  BY <1>1, <1>2, <1>3 DEF PhotosTyped
<1> QED
  BY <1>2, <1>3, <1>4, <1>5 DEF BecomesOf

\* What is left of the rows once a photo has been saved.
LEMMA SavedRows ==
    ASSUME PhotosTyped, NEW x \in Uploads, x.key \notin Photos!KeysOf(photoRows),
           photoRows' = Photos!Saved(x)
    PROVE  /\ photoRows' \subseteq Images
           /\ \A r, s \in photoRows' : r.key = s.key => r = s
           /\ Photos!KeysOf(photoRows)' \subseteq Photos!KeysOf(photoRows) \cup {x.key}
           /\ x.key \in Photos!KeysOf(photoRows)'
           /\ Photos!KeysOf(photoRows) \subseteq Photos!KeysOf(photoRows)' \cup Photos!KeysOf(Photos!Pending)
           /\ Photos!KeysOf(Photos!Pending) \subseteq Photos!KeysOf(photoRows)
           /\ Photos!KeysOf(Photos!Pending) \cap Photos!KeysOf(photoRows)' = {}
           /\ \A r, s \in Photos!Pending' : r = s
           /\ (\A r, s \in Photos!Active : r = s) => \A r, s \in Photos!Active' : r = s
<1> DEFINE kept == photoRows \ Photos!Pending
           n == [key |-> x.key, status |-> IF x.mode = "partial" THEN "pending" ELSE "active"]
           old(r) == [r EXCEPT !.status = "old"]
<1>1. \A r \in photoRows : r \in Images /\ r.key \in Nat /\ r.key # x.key /\ r.status \in {"active", "old", "pending"}
  BY DEF PhotosTyped, Images, Photos!KeysOf
<1>2. n \in Images /\ n.key = x.key /\ n.status = IF x.mode = "partial" THEN "pending" ELSE "active"
  BY DEF Images, Uploads
<1>3. \A r \in photoRows : old(r) \in Images /\ old(r).key = r.key /\ old(r).status = "old"
  BY <1>1 DEF Images
<1>4. \A r \in photoRows : r \in kept <=> r.status # "pending"
  BY DEF Photos!Pending
<1>5. kept \subseteq photoRows /\ \A r, s \in photoRows : r.key = s.key => r = s
  BY DEF PhotosTyped
<1>6. CASE x.mode = "partial"
  <2>1. photoRows' = kept \cup {n}
    BY <1>6 DEF Photos!Saved
  <2> HIDE DEF n, old, kept
  <2>2. photoRows' \subseteq Images /\ \A r, s \in photoRows' : r.key = s.key => r = s
    BY <1>1, <1>2, <1>5, <2>1
  <2> QED
    BY <1>1, <1>2, <1>4, <1>5, <1>6, <2>1, <2>2 DEF Photos!KeysOf, Photos!Pending, Photos!Active
<1>7. CASE x.mode # "partial"
  <2>1. photoRows' = {old(r) : r \in kept} \cup {n}
    BY <1>7 DEF Photos!Saved
  <2> HIDE DEF n, old, kept
  <2>2. photoRows' \subseteq Images /\ \A r, s \in photoRows' : r.key = s.key => r = s
    BY <1>1, <1>2, <1>3, <1>5, <2>1
  <2>3. \A r \in photoRows' : r.status = "old" \/ r = n
    BY <1>3, <1>5, <2>1
  <2>4. /\ \A r, s \in Photos!Pending' : r = s
        /\ \A r, s \in Photos!Active' : r = s
    BY <2>3 DEF Photos!Pending, Photos!Active
  <2>5. Photos!KeysOf(photoRows)' = {r.key : r \in kept} \cup {x.key}
    BY <1>2, <1>3, <1>5, <2>1 DEF Photos!KeysOf
  <2>6. \A r \in photoRows : r \in kept \/ r \in Photos!Pending
    BY <1>4 DEF Photos!Pending
  <2>7. \A r \in Photos!Pending : r \in photoRows /\ r \notin kept
    BY <1>4 DEF Photos!Pending
  <2>8. /\ Photos!KeysOf(photoRows)' \subseteq Photos!KeysOf(photoRows) \cup {x.key}
        /\ x.key \in Photos!KeysOf(photoRows)'
    BY <1>5, <2>5 DEF Photos!KeysOf
  <2>9. /\ Photos!KeysOf(photoRows) \subseteq Photos!KeysOf(photoRows)' \cup Photos!KeysOf(Photos!Pending)
        /\ Photos!KeysOf(Photos!Pending) \subseteq Photos!KeysOf(photoRows)
    BY <2>5, <2>6, <2>7 DEF Photos!KeysOf
  <2>10. Photos!KeysOf(Photos!Pending) \cap Photos!KeysOf(photoRows)' = {}
    BY <1>1, <1>5, <2>5, <2>7 DEF Photos!KeysOf
  <2> QED
    BY <2>2, <2>4, <2>8, <2>9, <2>10
<1> QED
  BY <1>6, <1>7

\* What the request accounted for is all that may be lost.
LEMMA HeldAfterStep ==
    ASSUME NEW x \in photoRequests, NEW y, NEW step, NEW junk, BecomesOf(x, y, step, junk)
    PROVE  Held \subseteq Held' \cup Holds(x) /\ Holds(y) \subseteq Held'
BY DEF BecomesOf, Held, Holds

LEMMA HeldAfterEnd ==
    ASSUME NEW x \in photoRequests, Photos!End(x)
    PROVE  Held \subseteq Held' \cup Holds(x)
BY DEF Photos!End, Held, Holds

Touched(x) == x.junk \cup {x.key} \cup Photos!KeysOf(photoRows)

\* A step of request x may touch its own key, its junk and the rows: no key of these is
\* that of another upload before its transaction.
LEMMA StillFresh ==
    ASSUME PhotosInv, NEW x \in photoRequests, NEW y, NEW step \in {"checking", "cleaning"}, NEW junk,
           BecomesOf(x, y, step, junk), step = "checking" => junk = {},
           junk \subseteq Touched(x), Photos!KeysOf(photoRows)' \subseteq Touched(x),
           Photos!KeysOf(photosOpen)' \subseteq Photos!KeysOf(photosOpen) \cup Touched(x),
           queue' \subseteq queue \cup Touched(x),
           photoObjects' \subseteq photoObjects, photoObjects \ x.junk \subseteq photoObjects'
    PROVE  UploadsAreFresh'
<1> SUFFICES ASSUME NEW q \in photoRequests'
             PROVE  /\ q.step \in {"new", "stored"} =>
                        /\ q.key \notin Photos!KeysOf(photoRows)' \cup Photos!KeysOf(photosOpen)' \cup queue'
                        /\ \A p \in photoRequests' : q.key \notin p.junk /\ (p.key = q.key => p = q)
                    /\ q.step = "new" => q.key \notin photoObjects'
                    /\ q.step = "stored" => q.key \in photoObjects'
                    /\ q.step \in {"new", "stored", "checking"} => q.junk = {}
  BY DEF UploadsAreFresh
<1>1. CASE q = y
  BY <1>1 DEF BecomesOf
<1>2. CASE q # y
  <2>1. q \in photoRequests /\ q # x
    BY <1>2 DEF BecomesOf
  <2>2. q.step \in {"new", "stored"} => q.key \notin Touched(x)
    BY <2>1 DEF PhotosInv, UploadsAreFresh, Touched
  <2>3. /\ q.step = "new" => q.key \notin photoObjects'
        /\ q.step = "stored" => q.key \in photoObjects'
        /\ q.step \in {"new", "stored", "checking"} => q.junk = {}
    BY <2>1, <2>2 DEF PhotosInv, UploadsAreFresh
  <2>4. q.step \in {"new", "stored"} =>
            q.key \notin Photos!KeysOf(photoRows)' \cup Photos!KeysOf(photosOpen)' \cup queue'
    BY <2>1, <2>2 DEF PhotosInv, UploadsAreFresh
  <2>5. ASSUME q.step \in {"new", "stored"}, NEW p \in photoRequests'
        PROVE  q.key \notin p.junk /\ (p.key = q.key => p = q)
    <3>1. CASE p = y
      BY <2>2, <2>5, <3>1 DEF BecomesOf, Touched
    <3>2. CASE p # y
      BY <2>1, <2>5, <3>2 DEF PhotosInv, UploadsAreFresh, BecomesOf
    <3> QED
      BY <3>1, <3>2
  <2> QED
    BY <2>3, <2>4, <2>5
<1> QED
  BY <1>1, <1>2

\* No request is new.
LEMMA StillFreshWithFewer ==
    ASSUME PhotosInv, photoRequests' \subseteq photoRequests,
           Photos!KeysOf(photoRows)' \subseteq Photos!KeysOf(photoRows) \cup Photos!KeysOf(photosOpen),
           Photos!KeysOf(photosOpen)' \subseteq Photos!KeysOf(photosOpen),
           queue' \subseteq queue \cup Photos!KeysOf(photoRows),
           \A q \in photoRequests' :
                /\ q.step = "new" /\ q.key \in photoObjects' => q.key \in photoObjects
                /\ q.step = "stored" /\ q.key \in photoObjects => q.key \in photoObjects'
    PROVE  UploadsAreFresh'
BY DEF PhotosInv, UploadsAreFresh

LEMMA PhotosStore ==
    ASSUME PhotosInv, NEW x \in photoRequests, Photos!Store(x), UNCHANGED <<taken, photosMade>>
    PROVE  PhotosInv'
<1>1. PICK y \in Uploads : BecomesOf(x, y, "stored", {})
  BY PhotosBecome DEF PhotosInv, Photos!Store
<1>2. /\ x.step = "new" /\ photoObjects' = photoObjects \cup {x.key}
      /\ UNCHANGED <<photoRows, queue, photosDue, photosOpen, left, late>>
  BY DEF Photos!Store
<1>3. x.key \in 0..photosMade
  BY DEF PhotosInv, PhotosTyped
<1>4. PhotosTyped'
  <2>1. Photos!KeysOf(photoRows)' \cup Photos!KeysOf(photosOpen)' \cup photoObjects' \cup queue' \subseteq 0..photosMade'
    BY <1>2, <1>3 DEF PhotosInv, PhotosTyped, Photos!KeysOf
  <2>2. photoRows' \subseteq Images /\ late' \in BOOLEAN
    BY <1>2 DEF PhotosInv, PhotosTyped
  <2> QED
    BY <1>1, <1>2, <2>1, <2>2 DEF PhotosInv, PhotosTyped, BecomesOf
<1>5. OneOfEach' /\ OpenIsUnsaved'
  BY <1>2 DEF PhotosInv, OneOfEach, OpenIsUnsaved, Photos!Active, Photos!Pending, Photos!KeysOf
<1>6. UploadsAreFresh'
  <2>1. x.key \notin Photos!KeysOf(photoRows) \cup Photos!KeysOf(photosOpen) \cup queue
    BY <1>2 DEF PhotosInv, UploadsAreFresh
  <2>2. \A p \in photoRequests : x.key \notin p.junk /\ (p.key = x.key => p = x)
    BY <1>2 DEF PhotosInv, UploadsAreFresh
  <2>3. ASSUME NEW q \in photoRequests', q # y
        PROVE  q \in photoRequests /\ q.key # x.key
    BY <1>1, <2>2, <2>3 DEF BecomesOf
  <2> QED
    BY <1>1, <1>2, <2>1, <2>2, <2>3 DEF PhotosInv, UploadsAreFresh, BecomesOf, Photos!KeysOf
<1>7. DoomedAreUnnamed' /\ RowsAreStored'
  BY <1>1, <1>2 DEF PhotosInv, DoomedAreUnnamed, RowsAreStored, BecomesOf, Photos!KeysOf
<1>8. ObjectsAreHeld'
  <2>1. Holds(x) \subseteq Holds(y) /\ x.key \in Holds(y)
    BY <1>1, <1>2 DEF PhotosInv, UploadsAreFresh, Holds, BecomesOf
  <2> QED
    BY <1>1, <1>2, <2>1, HeldAfterStep DEF PhotosInv, ObjectsAreHeld, Photos!KeysOf
<1> QED
  BY <1>4, <1>5, <1>6, <1>7, <1>8 DEF PhotosInv

LEMMA PhotosStoreFails ==
    ASSUME PhotosInv, NEW x \in photoRequests, Photos!StoreFails(x), UNCHANGED <<taken, photosMade>>
    PROVE  PhotosInv'
<1>1. /\ x.step = "new" /\ photoRequests' = photoRequests \ {x}
      /\ photoObjects' = photoObjects \/ photoObjects' = photoObjects \cup {x.key}
      /\ left' = left \cup (photoObjects' \ photoObjects)
      /\ UNCHANGED <<photoRows, queue, photosDue, photosOpen, late>>
  BY DEF Photos!StoreFails, Photos!End
<1>2. x.key \in 0..photosMade /\ x.junk = {}
  BY <1>1 DEF PhotosInv, PhotosTyped, UploadsAreFresh
<1>3. UNCHANGED <<Photos!KeysOf(photoRows), Photos!KeysOf(photosOpen)>>
  BY <1>1 DEF Photos!KeysOf
<1>4. PhotosTyped'
  <2>1. Photos!KeysOf(photoRows)' \cup Photos!KeysOf(photosOpen)' \cup photoObjects' \cup queue' \subseteq 0..photosMade'
    BY <1>1, <1>2, <1>3 DEF PhotosInv, PhotosTyped
  <2> QED
    BY <1>1, <2>1 DEF PhotosInv, PhotosTyped
<1>5. OneOfEach' /\ OpenIsUnsaved'
  BY <1>1, <1>3 DEF PhotosInv, OneOfEach, OpenIsUnsaved, Photos!Active, Photos!Pending
<1>6. UploadsAreFresh'
  <2>1. \A q \in photoRequests' : q.step = "new" => q.key # x.key
    BY <1>1 DEF PhotosInv, UploadsAreFresh
  <2> QED
    BY <1>1, <1>3, <2>1, StillFreshWithFewer
<1>7. DoomedAreUnnamed' /\ RowsAreStored'
  BY <1>1, <1>3 DEF PhotosInv, DoomedAreUnnamed, RowsAreStored
<1>8. ObjectsAreHeld'
  <2>1. Holds(x) = {x.key} /\ x.key \notin photoObjects
    BY <1>1, <1>2 DEF PhotosInv, UploadsAreFresh, Holds
  <2>2. Held \subseteq Held' \cup Holds(x)
    BY HeldAfterEnd DEF Photos!StoreFails
  <2> QED
    BY <1>1, <1>3, <2>1, <2>2 DEF PhotosInv, ObjectsAreHeld
<1> QED
  BY <1>4, <1>5, <1>6, <1>7, <1>8 DEF PhotosInv

LEMMA PhotosSave ==
    ASSUME PhotosInv, NEW x \in photoRequests, Photos!Save(x), UNCHANGED <<taken, photosMade>>
    PROVE  PhotosInv'
<1> DEFINE junk == Photos!KeysOf(Photos!Pending)
<1>1. /\ x.step = "stored" /\ photosOpen = {} /\ photoRows' = Photos!Saved(x)
      /\ UNCHANGED <<photoObjects, queue, photosDue, photosOpen, left, late>>
  BY DEF Photos!Save, Photos!Unlocked
<1>2. /\ x \in Uploads /\ x.key \in photoObjects /\ x.junk = {} /\ x.key \in 0..photosMade
      /\ x.key \notin Photos!KeysOf(photoRows) \cup queue
      /\ \A p \in photoRequests : x.key \notin p.junk
  BY <1>1 DEF PhotosInv, PhotosTyped, UploadsAreFresh
<1>3. /\ photoRows' \subseteq Images
      /\ \A r, s \in photoRows' : r.key = s.key => r = s
      /\ Photos!KeysOf(photoRows)' \subseteq Photos!KeysOf(photoRows) \cup {x.key}
      /\ x.key \in Photos!KeysOf(photoRows)'
      /\ Photos!KeysOf(photoRows) \subseteq Photos!KeysOf(photoRows)' \cup junk
      /\ junk \subseteq Photos!KeysOf(photoRows)
      /\ junk \cap Photos!KeysOf(photoRows)' = {}
      /\ \A r, s \in Photos!Pending' : r = s
      /\ \A r, s \in Photos!Active' : r = s
  BY <1>1, <1>2, SavedRows DEF PhotosInv, OneOfEach
<1> HIDE DEF junk
<1>4. junk \in SUBSET (0..photosMade)
  BY <1>3 DEF PhotosInv, PhotosTyped
<1>5. PICK y \in Uploads : BecomesOf(x, y, "cleaning", junk)
  BY <1>4, PhotosBecome DEF PhotosInv, Photos!Save, junk
<1>6. Photos!KeysOf(photosOpen)' = Photos!KeysOf(photosOpen)
  BY <1>1 DEF Photos!KeysOf
<1>7. PhotosTyped'
  <2>1. Photos!KeysOf(photoRows)' \cup Photos!KeysOf(photosOpen)' \cup photoObjects' \cup queue' \subseteq 0..photosMade'
    BY <1>1, <1>2, <1>3, <1>6 DEF PhotosInv, PhotosTyped
  <2> QED
    BY <1>1, <1>3, <1>5, <2>1 DEF PhotosInv, PhotosTyped, BecomesOf
<1>8. OneOfEach' /\ OpenIsUnsaved'
  BY <1>1, <1>3 DEF PhotosInv, OneOfEach, OpenIsUnsaved
<1>9. UploadsAreFresh'
  <2>1. /\ junk \subseteq Touched(x) /\ Photos!KeysOf(photoRows)' \subseteq Touched(x)
        /\ Photos!KeysOf(photosOpen)' \subseteq Photos!KeysOf(photosOpen) \cup Touched(x)
        /\ queue' \subseteq queue \cup Touched(x)
    BY <1>1, <1>3, <1>6 DEF Touched
  <2> QED
    BY <1>1, <1>5, <2>1, StillFresh
<1>10. DoomedAreUnnamed'
  <2> SUFFICES ASSUME ~late
               PROVE  /\ Photos!KeysOf(photoRows)' \cap queue = {}
                      /\ \A q \in photoRequests' : Photos!KeysOf(photoRows)' \cap q.junk = {}
    BY <1>1 DEF DoomedAreUnnamed
  <2>1. Photos!KeysOf(photoRows)' \cap queue = {}
    BY <1>2, <1>3 DEF PhotosInv, DoomedAreUnnamed
  <2>2. ASSUME NEW q \in photoRequests' PROVE Photos!KeysOf(photoRows)' \cap q.junk = {}
    BY <1>2, <1>3, <1>5 DEF PhotosInv, DoomedAreUnnamed, BecomesOf
  <2> QED
    BY <2>1, <2>2
<1>11. RowsAreStored'
  BY <1>1, <1>2, <1>3 DEF PhotosInv, RowsAreStored
<1>12. ObjectsAreHeld'
  <2>1. Holds(x) = {x.key} /\ Holds(y) = junk
    BY <1>1, <1>2, <1>5 DEF Holds, BecomesOf
  <2> QED
    BY <1>1, <1>3, <1>5, <2>1, HeldAfterStep DEF PhotosInv, ObjectsAreHeld
<1> QED
  BY <1>7, <1>8, <1>9, <1>10, <1>11, <1>12 DEF PhotosInv

\* A step of a request that leaves the rows alone and gets no key to delete that is named.
LEMMA PhotosQuietStep ==
    ASSUME PhotosInv, NEW x \in photoRequests, NEW y, NEW step \in {"checking", "cleaning"}, NEW junk,
           BecomesOf(x, y, step, junk), step = "checking" => junk = {},
           junk \subseteq x.junk \cup {x.key},
           ~late => Photos!KeysOf(photoRows) \cap junk = {},
           photosOpen' = photosOpen \/ (photosOpen' = {x} /\ x.key \notin Photos!KeysOf(photoRows)),
           queue \subseteq queue', queue' \subseteq queue \cup x.junk,
           taken \subseteq photosDue', photosDue' \subseteq queue',
           photoObjects' \subseteq photoObjects, photoObjects \ x.junk \subseteq photoObjects',
           left \subseteq left', photoObjects' \cap Holds(x) \subseteq Holds(y) \cup queue' \cup left' \cup Photos!KeysOf(photoRows),
           UNCHANGED <<photoRows, taken, photosMade, late>>
    PROVE  PhotosInv'
<1>1. Photos!KeysOf(photoRows)' = Photos!KeysOf(photoRows)
  BY DEF Photos!KeysOf
<1>2. Photos!KeysOf(photosOpen)' \subseteq Photos!KeysOf(photosOpen) \cup {x.key}
  BY DEF Photos!KeysOf
<1>3. x \in Uploads /\ x.key \in 0..photosMade /\ x.junk \subseteq 0..photosMade
  BY DEF PhotosInv, PhotosTyped
<1>4. PhotosTyped'
  <2>1. Photos!KeysOf(photoRows)' \cup Photos!KeysOf(photosOpen)' \cup photoObjects' \cup queue' \subseteq 0..photosMade'
    BY <1>1, <1>2, <1>3 DEF PhotosInv, PhotosTyped
  <2>2. photosOpen' \subseteq Uploads
    BY <1>3 DEF PhotosInv, PhotosTyped
  <2> QED
    BY <2>1, <2>2 DEF PhotosInv, PhotosTyped, BecomesOf
<1>5. OneOfEach' /\ OpenIsUnsaved'
  BY <1>1 DEF PhotosInv, OneOfEach, OpenIsUnsaved, Photos!Active, Photos!Pending
<1>6. UploadsAreFresh'
  <2>1. /\ junk \subseteq Touched(x) /\ Photos!KeysOf(photoRows)' \subseteq Touched(x)
        /\ Photos!KeysOf(photosOpen)' \subseteq Photos!KeysOf(photosOpen) \cup Touched(x)
        /\ queue' \subseteq queue \cup Touched(x)
    BY <1>1, <1>2 DEF Touched
  <2> QED
    BY <2>1, StillFresh
<1>7. DoomedAreUnnamed' /\ RowsAreStored'
  BY <1>1 DEF PhotosInv, DoomedAreUnnamed, RowsAreStored, BecomesOf
<1>8. ObjectsAreHeld'
  BY <1>1, HeldAfterStep DEF PhotosInv, ObjectsAreHeld
<1> QED
  BY <1>4, <1>5, <1>6, <1>7, <1>8 DEF PhotosInv

LEMMA PhotosRollback ==
    ASSUME PhotosInv, NEW x \in photoRequests, Photos!Rollback(x), UNCHANGED <<taken, photosMade>>
    PROVE  PhotosInv'
<1>1. /\ x.step = "stored" /\ UNCHANGED <<photoRows, photoObjects, queue, photosDue, photosOpen, left, late>>
  BY DEF Photos!Rollback
<1>2. /\ x.key \in 0..photosMade /\ x.junk = {} /\ x.key \notin Photos!KeysOf(photoRows)
      /\ taken \subseteq photosDue /\ photosDue \subseteq queue
  BY <1>1 DEF PhotosInv, PhotosTyped, UploadsAreFresh
<1>3. PICK y \in Uploads : BecomesOf(x, y, "cleaning", {x.key})
  BY <1>2, PhotosBecome DEF PhotosInv, Photos!Rollback
<1>4. Holds(x) \subseteq Holds(y)
  BY <1>2, <1>3 DEF Holds, BecomesOf
<1> QED
  BY <1>1, <1>2, <1>3, <1>4, PhotosQuietStep

LEMMA PhotosCommitLost ==
    ASSUME PhotosInv, NEW x \in photoRequests, Photos!CommitLost(x), UNCHANGED <<taken, photosMade>>
    PROVE  PhotosInv'
<1>1. /\ x.step = "stored" /\ photosOpen' = {x}
      /\ UNCHANGED <<photoRows, photoObjects, queue, photosDue, left, late>>
  BY DEF Photos!CommitLost
<1>2. /\ x.key \in 0..photosMade /\ x.junk = {} /\ x.key \notin Photos!KeysOf(photoRows)
      /\ taken \subseteq photosDue /\ photosDue \subseteq queue
  BY <1>1 DEF PhotosInv, PhotosTyped, UploadsAreFresh
<1>3. PICK y \in Uploads : BecomesOf(x, y, "checking", {})
  BY PhotosBecome DEF PhotosInv, Photos!CommitLost
<1>4. Holds(x) \subseteq Holds(y)
  BY <1>1, <1>2, <1>3 DEF Holds, BecomesOf
<1> QED
  BY <1>1, <1>2, <1>3, <1>4, PhotosQuietStep

\* A step of which no request is new and the rows are as they were: what it deletes, and
\* what it drops from the queue, no row names and no upload is about to name.
LEMMA PhotosQuietEnd ==
    ASSUME PhotosInv, photoRequests' \subseteq photoRequests,
           UNCHANGED <<photoRows, photosMade, photosOpen, late>>,
           queue' \subseteq queue, photosDue' \subseteq queue', taken' \subseteq photosDue',
           photoObjects' \subseteq photoObjects,
           ~late => Photos!KeysOf(photoRows) \cap (photoObjects \ photoObjects') = {},
           \A q \in photoRequests' : q.step = "stored" => q.key \notin photoObjects \ photoObjects',
           ObjectsAreHeld'
    PROVE  PhotosInv'
<1>1. UNCHANGED <<Photos!KeysOf(photoRows), Photos!KeysOf(photosOpen)>>
  BY DEF Photos!KeysOf
<1>2. PhotosTyped'
  <2>1. Photos!KeysOf(photoRows)' \cup Photos!KeysOf(photosOpen)' \cup photoObjects' \cup queue' \subseteq 0..photosMade'
    BY <1>1 DEF PhotosInv, PhotosTyped
  <2> QED
    BY <2>1 DEF PhotosInv, PhotosTyped
<1>3. OneOfEach' /\ OpenIsUnsaved'
  BY <1>1 DEF PhotosInv, OneOfEach, OpenIsUnsaved, Photos!Active, Photos!Pending
<1>4. UploadsAreFresh'
  BY <1>1, StillFreshWithFewer
<1>5. DoomedAreUnnamed' /\ RowsAreStored'
  BY <1>1 DEF PhotosInv, DoomedAreUnnamed, RowsAreStored
<1> QED
  BY <1>2, <1>3, <1>4, <1>5 DEF PhotosInv

LEMMA PhotosCheckOutcome ==
    ASSUME PhotosInv, NEW x \in photoRequests, Photos!CheckOutcome(x), UNCHANGED <<taken, photosMade>>
    PROVE  PhotosInv'
<1>1. x.step = "checking" /\ UNCHANGED <<photoRows, photoObjects, queue, photosDue, photosOpen, late>>
  BY DEF Photos!CheckOutcome
<1>2. /\ x.key \in 0..photosMade /\ x.junk = {} /\ Holds(x) = {x.key}
      /\ taken \subseteq photosDue /\ photosDue \subseteq queue
  BY <1>1 DEF PhotosInv, PhotosTyped, UploadsAreFresh, Holds
<1>3. CASE /\ Photos!End(x) /\ left \subseteq left'
           /\ x.key \in Photos!KeysOf(photoRows) \cup left'
  <2>1. photoRequests' \subseteq photoRequests /\ Held \subseteq Held' \cup {x.key}
    BY <1>2, <1>3, HeldAfterEnd DEF Photos!End
  <2>2. ObjectsAreHeld'
    BY <1>1, <1>3, <2>1 DEF PhotosInv, ObjectsAreHeld, Photos!KeysOf
  <2> QED
    BY <1>1, <1>2, <2>1, <2>2, PhotosQuietEnd
<1>4. CASE /\ x.key \notin Photos!KeysOf(photoRows)
           /\ Photos!Become(x, "cleaning", {x.key}) /\ UNCHANGED left
  <2>1. PICK y \in Uploads : BecomesOf(x, y, "cleaning", {x.key})
    BY <1>2, <1>4, PhotosBecome DEF PhotosInv
  <2>2. Holds(x) \subseteq Holds(y)
    BY <1>2, <2>1 DEF Holds, BecomesOf
  <2> QED
    BY <1>1, <1>2, <1>4, <2>1, <2>2, PhotosQuietStep
<1> QED
  BY <1>3, <1>4 DEF Photos!CheckOutcome

LEMMA PhotosCleanUp ==
    ASSUME PhotosInv, NEW x \in photoRequests, Photos!CleanUp(x), UNCHANGED <<taken, photosMade>>
    PROVE  PhotosInv'
<1>1. x.step = "cleaning" /\ UNCHANGED <<photoRows, photosOpen, late>>
  BY DEF Photos!CleanUp
<1>2. /\ x.junk \subseteq 0..photosMade /\ Holds(x) = x.junk
      /\ taken \subseteq photosDue /\ photosDue \subseteq queue
      /\ ~late => Photos!KeysOf(photoRows) \cap x.junk = {}
  BY <1>1 DEF PhotosInv, PhotosTyped, DoomedAreUnnamed, Holds
<1>3. CASE x.junk = {} /\ Photos!End(x) /\ UNCHANGED <<photoObjects, queue, photosDue, left>>
  <2>1. photoRequests' \subseteq photoRequests /\ Held \subseteq Held'
    BY <1>2, <1>3, HeldAfterEnd DEF Photos!End
  <2>2. ObjectsAreHeld'
    BY <1>1, <1>3, <2>1 DEF PhotosInv, ObjectsAreHeld, Photos!KeysOf
  <2> QED
    BY <1>1, <1>2, <1>3, <2>1, <2>2, PhotosQuietEnd
<1>4. ASSUME NEW k \in x.junk,
             Photos!Become(x, "cleaning", x.junk \ {k}),
             photoObjects' \in {photoObjects, photoObjects \ {k}},
             \/ photoObjects' = photoObjects \ {k} /\ UNCHANGED <<queue, photosDue, left>>
             \/ queue' = queue \cup {k} /\ photosDue' = photosDue \cup {k} /\ UNCHANGED left
             \/ left' = left \cup {k} /\ UNCHANGED <<queue, photosDue>>
      PROVE  PhotosInv'
  <2>1. PICK y \in Uploads : BecomesOf(x, y, "cleaning", x.junk \ {k})
    BY <1>2, <1>4, PhotosBecome DEF PhotosInv
  <2>2. Holds(y) = x.junk \ {k}
    BY <2>1 DEF Holds, BecomesOf
  <2>3. /\ queue \subseteq queue' /\ queue' \subseteq queue \cup x.junk
        /\ taken \subseteq photosDue' /\ photosDue' \subseteq queue' /\ left \subseteq left'
        /\ photoObjects' \subseteq photoObjects /\ photoObjects \ x.junk \subseteq photoObjects'
        /\ photoObjects' \cap Holds(x) \subseteq Holds(y) \cup queue' \cup left'
    BY <1>2, <1>4, <2>2
  <2>4. ~late => Photos!KeysOf(photoRows) \cap (x.junk \ {k}) = {}
    BY <1>2
  <2> QED
    BY <1>1, <2>1, <2>3, <2>4, PhotosQuietStep
<1> QED
  BY <1>3, <1>4 DEF Photos!CleanUp

LEMMA PhotosDeleteDiscarded ==
    ASSUME PhotosInv, NEW x \in photoRequests, Photos!DeleteDiscarded(x), UNCHANGED <<taken, photosMade>>
    PROVE  PhotosInv'
<1>1. /\ x.step = "discarding" /\ Photos!End(x)
      /\ photoObjects' \in {photoObjects, photoObjects \ x.junk}
      /\ photoObjects' = photoObjects \ x.junk \/ left' = left \cup x.junk
      /\ left \subseteq left'
      /\ UNCHANGED <<photoRows, queue, photosDue, photosOpen, late>>
  BY DEF Photos!DeleteDiscarded
<1>2. /\ Holds(x) = x.junk /\ taken \subseteq photosDue /\ photosDue \subseteq queue
      /\ ~late => Photos!KeysOf(photoRows) \cap x.junk = {}
  BY <1>1 DEF PhotosInv, PhotosTyped, DoomedAreUnnamed, Holds
<1>3. photoRequests' \subseteq photoRequests /\ Held \subseteq Held' \cup x.junk
  BY <1>1, <1>2, HeldAfterEnd DEF Photos!End
<1>4. ObjectsAreHeld'
  BY <1>1, <1>3 DEF PhotosInv, ObjectsAreHeld, Photos!KeysOf
<1>5. \A q \in photoRequests' : q.step = "stored" => q.key \notin x.junk
  BY <1>3 DEF PhotosInv, UploadsAreFresh
<1>6. photoObjects' \subseteq photoObjects /\ photoObjects \ photoObjects' \subseteq x.junk
  BY <1>1
<1> QED
  BY <1>1, <1>2, <1>3, <1>4, <1>5, <1>6, PhotosQuietEnd

LEMMA PhotosUpload == ASSUME PhotosInv, Photos!UploadImage PROVE PhotosInv'
<1>1. PICK mode \in {"full", "partial"} :
        photoRequests' = photoRequests \cup
            {[key |-> photosMade + 1, mode |-> mode, parent |-> Photos!Active, step |-> "new", junk |-> {}]}
  BY DEF Photos!UploadImage
<1> DEFINE n == [key |-> photosMade + 1, mode |-> mode, parent |-> Photos!Active, step |-> "new", junk |-> {}]
<1>2. /\ photosMade' = photosMade + 1 /\ photoRequests' = photoRequests \cup {n}
      /\ UNCHANGED <<photoRows, photoObjects, queue, photosDue, taken, photosOpen, left, late>>
  BY <1>1 DEF Photos!UploadImage
<1>3. photosMade \in Nat /\ Photos!Active \in SUBSET Images
  BY DEF PhotosInv, PhotosTyped, Photos!Active
<1>4. n \in Uploads /\ n.key = photosMade + 1 /\ n.step = "new" /\ n.junk = {}
  BY <1>3 DEF Uploads
<1> HIDE DEF n
<1>5. UNCHANGED <<Photos!KeysOf(photoRows), Photos!KeysOf(photosOpen)>>
  BY <1>2 DEF Photos!KeysOf
<1>6. n.key \notin 0..photosMade /\ 0..photosMade \subseteq 0..photosMade' /\ n.key \in 0..photosMade'
  BY <1>2, <1>3, <1>4
<1>7. /\ Photos!KeysOf(photoRows) \cup Photos!KeysOf(photosOpen) \cup photoObjects \cup queue \subseteq 0..photosMade
      /\ \A q \in photoRequests : q.key \in 0..photosMade /\ q.junk \subseteq 0..photosMade
  BY DEF PhotosInv, PhotosTyped
<1>8. PhotosTyped'
  <2>1. Photos!KeysOf(photoRows)' \cup Photos!KeysOf(photosOpen)' \cup photoObjects' \cup queue' \subseteq 0..photosMade'
    BY <1>2, <1>5, <1>6, <1>7
  <2>2. \A q \in photoRequests' : q.key \in 0..photosMade' /\ q.junk \subseteq 0..photosMade'
    BY <1>2, <1>4, <1>6, <1>7
  <2>3. photosMade' \in Nat /\ photoRequests' \subseteq Uploads
    BY <1>2, <1>3, <1>4 DEF PhotosInv, PhotosTyped
  <2> QED
    BY <1>2, <2>1, <2>2, <2>3 DEF PhotosInv, PhotosTyped
<1>9. OneOfEach' /\ OpenIsUnsaved'
  BY <1>2, <1>5 DEF PhotosInv, OneOfEach, OpenIsUnsaved, Photos!Active, Photos!Pending
<1>10. UploadsAreFresh'
  <2>1. ASSUME NEW q \in photoRequests', NEW p \in photoRequests', q.step \in {"new", "stored"}
        PROVE  q.key \notin p.junk /\ (p.key = q.key => p = q)
    BY <1>2, <1>4, <1>6, <1>7, <2>1 DEF PhotosInv, UploadsAreFresh
  <2>2. ASSUME NEW q \in photoRequests', q.step \in {"new", "stored"}
        PROVE  q.key \notin Photos!KeysOf(photoRows)' \cup Photos!KeysOf(photosOpen)' \cup queue'
    BY <1>2, <1>4, <1>5, <1>6, <1>7, <2>2 DEF PhotosInv, UploadsAreFresh
  <2>3. ASSUME NEW q \in photoRequests'
        PROVE  /\ q.step = "new" => q.key \notin photoObjects'
               /\ q.step = "stored" => q.key \in photoObjects'
               /\ q.step \in {"new", "stored", "checking"} => q.junk = {}
    BY <1>2, <1>4, <1>6, <1>7 DEF PhotosInv, UploadsAreFresh
  <2> QED
    BY <2>1, <2>2, <2>3 DEF UploadsAreFresh
<1>11. DoomedAreUnnamed' /\ RowsAreStored'
  BY <1>2, <1>4, <1>5 DEF PhotosInv, DoomedAreUnnamed, RowsAreStored
<1>12. ObjectsAreHeld'
  <2>1. Held \subseteq Held'
    BY <1>2 DEF Held, Holds
  <2> QED
    BY <1>2, <1>5, <2>1 DEF PhotosInv, ObjectsAreHeld
<1> QED
  BY <1>8, <1>9, <1>10, <1>11, <1>12 DEF PhotosInv

LEMMA PhotosApply == ASSUME PhotosInv, Photos!ApplyReset PROVE PhotosInv'
<1> DEFINE applied(r) == [r EXCEPT !.status = IF r.status = "pending" THEN "active" ELSE "old"]
<1>1. /\ photoRows' = {applied(r) : r \in photoRows}
      /\ UNCHANGED <<photoRequests, photosMade, photoObjects, queue, photosDue, taken, photosOpen, left, late>>
  BY DEF Photos!ApplyReset
<1>2. \A r \in photoRows :
        /\ r \in Images /\ applied(r) \in Images /\ applied(r).key = r.key
        /\ applied(r).status = IF r.status = "pending" THEN "active" ELSE "old"
  BY DEF PhotosInv, PhotosTyped, Images
<1> HIDE DEF applied
<1>3. UNCHANGED <<Photos!KeysOf(photoRows), Photos!KeysOf(photosOpen)>>
  BY <1>1, <1>2 DEF Photos!KeysOf
<1>4. photoRows' \subseteq Images /\ \A r, s \in photoRows' : r.key = s.key => r = s
  BY <1>1, <1>2 DEF PhotosInv, PhotosTyped
<1>5. PhotosTyped'
  BY <1>1, <1>3, <1>4 DEF PhotosInv, PhotosTyped
<1>6. OneOfEach'
  BY <1>1, <1>2 DEF PhotosInv, OneOfEach, Photos!Active, Photos!Pending
<1>7. UploadsAreFresh' /\ OpenIsUnsaved' /\ DoomedAreUnnamed' /\ RowsAreStored'
  BY <1>1, <1>3 DEF PhotosInv, UploadsAreFresh, OpenIsUnsaved, DoomedAreUnnamed, RowsAreStored
<1>8. ObjectsAreHeld'
  BY <1>1, <1>3 DEF PhotosInv, ObjectsAreHeld, Held, Holds
<1> QED
  BY <1>5, <1>6, <1>7, <1>8 DEF PhotosInv

LEMMA PhotosDiscard == ASSUME PhotosInv, Photos!DiscardReset PROVE PhotosInv'
<1>1. PICK r \in Photos!Pending :
        /\ photosOpen = {} /\ photoRows' = photoRows \ {r}
        /\ UNCHANGED <<photosMade, photoObjects, queue, photosDue, taken, photosOpen, late>>
        /\ \/ /\ photoRequests' = photoRequests \cup
                    {[key |-> r.key, mode |-> "discard", parent |-> {}, step |-> "discarding", junk |-> {r.key}]}
              /\ UNCHANGED left
           \/ left' = left \cup {r.key} /\ UNCHANGED photoRequests
  BY DEF Photos!DiscardReset, Photos!Unlocked
<1> DEFINE n == [key |-> r.key, mode |-> "discard", parent |-> {}, step |-> "discarding", junk |-> {r.key}]
<1>2. /\ r \in photoRows /\ r \in Images /\ r.key \in Photos!KeysOf(photoRows) /\ r.key \in 0..photosMade
      /\ \A s \in photoRows : s.key = r.key => s = r
  BY DEF PhotosInv, PhotosTyped, Photos!Pending, Photos!KeysOf
<1>3. n \in Uploads /\ n.key = r.key /\ n.step = "discarding" /\ n.junk = {r.key}
  BY <1>2 DEF Uploads, Images
<1>4. photoRequests' = photoRequests \cup {n} \/ photoRequests' = photoRequests
  BY <1>1
<1> HIDE DEF n
<1>5. /\ Photos!KeysOf(photoRows)' = Photos!KeysOf(photoRows) \ {r.key}
      /\ UNCHANGED Photos!KeysOf(photosOpen)
  BY <1>1, <1>2 DEF Photos!KeysOf
<1>6. PhotosTyped'
  <2>1. \A q \in photoRequests' : q.key \in 0..photosMade /\ q.junk \subseteq 0..photosMade
    BY <1>2, <1>3, <1>4 DEF PhotosInv, PhotosTyped
  <2>2. photoRequests' \subseteq Uploads
    BY <1>3, <1>4 DEF PhotosInv, PhotosTyped
  <2>3. Photos!KeysOf(photoRows)' \cup Photos!KeysOf(photosOpen)' \cup photoObjects' \cup queue' \subseteq 0..photosMade'
    BY <1>1, <1>5 DEF PhotosInv, PhotosTyped
  <2> QED
    BY <1>1, <2>1, <2>2, <2>3 DEF PhotosInv, PhotosTyped
<1>7. OneOfEach' /\ OpenIsUnsaved'
  BY <1>1 DEF PhotosInv, OneOfEach, OpenIsUnsaved, Photos!Active, Photos!Pending
<1>8. UploadsAreFresh'
  <2>1. \A q \in photoRequests : q.step \in {"new", "stored"} => q.key # r.key
    BY <1>2 DEF PhotosInv, UploadsAreFresh
  <2>2. \A q \in photoRequests' : q.step \in {"new", "stored", "checking"} => q \in photoRequests
    BY <1>3, <1>4
  <2> QED
    BY <1>1, <1>3, <1>4, <1>5, <2>1, <2>2 DEF PhotosInv, UploadsAreFresh
<1>9. DoomedAreUnnamed' /\ RowsAreStored'
  BY <1>1, <1>3, <1>4, <1>5 DEF PhotosInv, DoomedAreUnnamed, RowsAreStored
<1>10. ObjectsAreHeld'
  <2>1. Held \subseteq Held' /\ r.key \in Held' \cup left'
    <3>1. CASE photoRequests' = photoRequests \cup {n}
      BY <1>3, <3>1 DEF Held, Holds
    <3>2. CASE photoRequests' = photoRequests /\ left' = left \cup {r.key}
      BY <3>2 DEF Held, Holds
    <3> QED
      BY <1>1, <3>1, <3>2 DEF n
  <2> QED
    BY <1>1, <1>5, <2>1 DEF PhotosInv, ObjectsAreHeld
<1> QED
  BY <1>6, <1>7, <1>8, <1>9, <1>10 DEF PhotosInv

LEMMA PhotosDeleteWall == ASSUME PhotosInv, Photos!DeleteWall PROVE PhotosInv'
<1>1. /\ photoRows' = {}
      /\ queue' = queue \cup Photos!KeysOf(photoRows) /\ photosDue' = photosDue \cup Photos!KeysOf(photoRows)
      /\ UNCHANGED <<photoObjects, taken, photoRequests, photosMade, photosOpen, left, late>>
  BY DEF Photos!DeleteWall
<1>2. Photos!KeysOf(photoRows)' = {} /\ UNCHANGED Photos!KeysOf(photosOpen)
  BY <1>1 DEF Photos!KeysOf
<1>3. PhotosTyped'
  <2>1. Photos!KeysOf(photoRows)' \cup Photos!KeysOf(photosOpen)' \cup photoObjects' \cup queue' \subseteq 0..photosMade'
    BY <1>1, <1>2 DEF PhotosInv, PhotosTyped
  <2> QED
    BY <1>1, <2>1 DEF PhotosInv, PhotosTyped
<1>4. OneOfEach' /\ OpenIsUnsaved'
  BY <1>1, <1>2 DEF PhotosInv, OneOfEach, OpenIsUnsaved, Photos!Active, Photos!Pending
<1>5. UploadsAreFresh'
  BY <1>1, <1>2, StillFreshWithFewer
<1>6. DoomedAreUnnamed' /\ RowsAreStored'
  BY <1>2 DEF DoomedAreUnnamed, RowsAreStored
<1>7. ObjectsAreHeld'
  BY <1>1, <1>2 DEF PhotosInv, ObjectsAreHeld, Held, Holds
<1> QED
  BY <1>3, <1>4, <1>5, <1>6, <1>7 DEF PhotosInv

\* A commit that ends late adds a row whose key is nobody's any more, or says so.
LEMMA PhotosCommitEnds == ASSUME PhotosInv, Photos!CommitEnds PROVE PhotosInv'
<1>1. PICK x \in photosOpen :
        \/ UNCHANGED <<photoRows, left, late>>
        \/ /\ photoRows' = Photos!Saved(x)
           /\ left' = left \cup Photos!KeysOf(Photos!Pending)
           /\ late' = (late \/ x.key \notin photoObjects \/ x.key \in queue
                            \/ \E p \in photoRequests : x.key \in p.junk)
  BY DEF Photos!CommitEnds
<1>2. /\ photosOpen' = {}
      /\ UNCHANGED <<photoObjects, queue, photosDue, taken, photoRequests, photosMade>>
  BY DEF Photos!CommitEnds
<1>3. /\ x \in Uploads /\ x.key \in Photos!KeysOf(photosOpen) /\ x.key \notin Photos!KeysOf(photoRows)
  BY DEF PhotosInv, PhotosTyped, OpenIsUnsaved, Photos!KeysOf
<1>4. Photos!KeysOf(photosOpen)' = {}
  BY <1>2 DEF Photos!KeysOf
<1>5. CASE UNCHANGED <<photoRows, left, late>>
  <2>1. Photos!KeysOf(photoRows)' = Photos!KeysOf(photoRows)
    BY <1>5 DEF Photos!KeysOf
  <2>2. PhotosTyped'
    BY <1>2, <1>4, <1>5, <2>1 DEF PhotosInv, PhotosTyped
  <2>3. OneOfEach' /\ OpenIsUnsaved' /\ DoomedAreUnnamed' /\ RowsAreStored'
    BY <1>2, <1>5, <2>1 DEF PhotosInv, OneOfEach, OpenIsUnsaved, DoomedAreUnnamed, RowsAreStored,
       Photos!Active, Photos!Pending
  <2>4. UploadsAreFresh'
    BY <1>2, <1>4, <2>1, StillFreshWithFewer
  <2>5. ObjectsAreHeld'
    BY <1>2, <1>5, <2>1 DEF PhotosInv, ObjectsAreHeld, Held, Holds
  <2> QED
    BY <2>2, <2>3, <2>4, <2>5 DEF PhotosInv
<1>6. CASE /\ photoRows' = Photos!Saved(x)
           /\ left' = left \cup Photos!KeysOf(Photos!Pending)
           /\ late' = (late \/ x.key \notin photoObjects \/ x.key \in queue
                            \/ \E p \in photoRequests : x.key \in p.junk)
  <2>1. /\ photoRows' \subseteq Images
        /\ \A r, s \in photoRows' : r.key = s.key => r = s
        /\ Photos!KeysOf(photoRows)' \subseteq Photos!KeysOf(photoRows) \cup {x.key}
        /\ Photos!KeysOf(photoRows) \subseteq Photos!KeysOf(photoRows)' \cup Photos!KeysOf(Photos!Pending)
        /\ \A r, s \in Photos!Pending' : r = s
        /\ \A r, s \in Photos!Active' : r = s
    BY <1>3, <1>6, SavedRows DEF PhotosInv, OneOfEach
  <2>2. late' \in BOOLEAN
    BY <1>6
  <2>3. PhotosTyped'
    <3>1. Photos!KeysOf(photoRows)' \cup Photos!KeysOf(photosOpen)' \cup photoObjects' \cup queue' \subseteq 0..photosMade'
      BY <1>2, <1>3, <1>4, <2>1 DEF PhotosInv, PhotosTyped
    <3> QED
      BY <1>2, <2>1, <2>2, <3>1 DEF PhotosInv, PhotosTyped
  <2>4. OneOfEach' /\ OpenIsUnsaved'
    BY <1>2, <2>1 DEF OneOfEach, OpenIsUnsaved
  <2>5. UploadsAreFresh'
    <3>1. Photos!KeysOf(photoRows)' \subseteq Photos!KeysOf(photoRows) \cup Photos!KeysOf(photosOpen)
      BY <1>3, <2>1
    <3> QED
      BY <1>2, <1>4, <3>1, StillFreshWithFewer
  <2>6. ASSUME ~late'
        PROVE  ~late /\ x.key \in photoObjects /\ x.key \notin queue /\ \A p \in photoRequests : x.key \notin p.junk
    BY <1>6, <2>6
  <2>7. DoomedAreUnnamed' /\ RowsAreStored'
    BY <1>2, <2>1, <2>6 DEF PhotosInv, DoomedAreUnnamed, RowsAreStored
  <2>8. ObjectsAreHeld'
    BY <1>2, <1>6, <2>1 DEF PhotosInv, ObjectsAreHeld, Held, Holds
  <2> QED
    BY <2>3, <2>4, <2>5, <2>7, <2>8 DEF PhotosInv
<1> QED
  BY <1>1, <1>5, <1>6

\* What the queue's loop does.
LEMMA PhotosDrain ==
    ASSUME PhotosInv, Photos!TakeNext \/ Photos!DrainQueue \/ Photos!MinutePasses
    PROVE  PhotosInv'
<1>1. taken \subseteq photosDue /\ photosDue \subseteq queue
  BY DEF PhotosInv, PhotosTyped
<1>2. CASE Photos!TakeNext
  <2>1. ObjectsAreHeld'
    BY <1>2 DEF Photos!TakeNext, PhotosInv, ObjectsAreHeld, Held, Holds, Photos!KeysOf
  <2> QED
    BY <1>1, <1>2, <2>1, PhotosQuietEnd DEF Photos!TakeNext
<1>3. CASE Photos!MinutePasses
  <2>1. ObjectsAreHeld'
    BY <1>3 DEF Photos!MinutePasses, PhotosInv, ObjectsAreHeld, Held, Holds, Photos!KeysOf
  <2> QED
    BY <1>1, <1>3, <2>1, PhotosQuietEnd DEF Photos!MinutePasses
<1>4. CASE Photos!DrainQueue
  <2>1. PICK k \in taken : Photos!DeleteStored(k)
    BY <1>4 DEF Photos!DrainQueue
  <2>2. /\ taken' = taken \ {k} /\ photoObjects' \in {photoObjects, photoObjects \ {k}}
        /\ queue' \subseteq queue /\ photosDue' \subseteq queue' /\ taken' \subseteq photosDue'
        /\ queue' = queue \/ (queue' = queue \ {k} /\ photoObjects' = photoObjects \ {k})
        /\ UNCHANGED <<photoRows, photoRequests, photosMade, photosOpen, left, late>>
    BY <1>1, <2>1 DEF Photos!DeleteStored
  <2>3. k \in queue /\ (~late => k \notin Photos!KeysOf(photoRows))
    BY <1>1 DEF PhotosInv, DoomedAreUnnamed
  <2>4. \A q \in photoRequests : q.step = "stored" => q.key # k
    BY <2>3 DEF PhotosInv, UploadsAreFresh
  <2>5. ObjectsAreHeld'
    BY <2>2 DEF PhotosInv, ObjectsAreHeld, Held, Holds, Photos!KeysOf
  <2> QED
    BY <2>2, <2>3, <2>4, <2>5, PhotosQuietEnd
<1> QED
  BY <1>2, <1>3, <1>4

LEMMA PhotosRestart == ASSUME PhotosInv, Photos!Restart PROVE PhotosInv'
<1>1. /\ photoRequests' = {} /\ taken' = {}
      /\ left' = left \cup UNION {q.junk \cup {q.key} : q \in photoRequests}
      /\ UNCHANGED <<photoRows, photoObjects, queue, photosDue, photosMade, photosOpen, late>>
  BY DEF Photos!Restart
<1>2. photosDue \subseteq queue
  BY DEF PhotosInv, PhotosTyped
<1>3. Held \subseteq left'
  BY <1>1 DEF Held, Holds
<1>4. ObjectsAreHeld'
  BY <1>1, <1>3 DEF PhotosInv, ObjectsAreHeld, Photos!KeysOf
<1> QED
  BY <1>1, <1>2, <1>4, PhotosQuietEnd

LEMMA PhotosNext == PhotosInv /\ Photos!Next => PhotosInv'
<1> SUFFICES ASSUME PhotosInv, Photos!Next PROVE PhotosInv'
  OBVIOUS
<1>1. CASE Photos!Serve
  <2>1. PICK x \in photoRequests :
            \/ Photos!Store(x) \/ Photos!StoreFails(x) \/ Photos!Save(x) \/ Photos!Rollback(x)
            \/ Photos!CommitLost(x) \/ Photos!CheckOutcome(x) \/ Photos!CleanUp(x) \/ Photos!DeleteDiscarded(x)
    BY <1>1 DEF Photos!Serve
  <2>2. UNCHANGED <<taken, photosMade>>
    BY <1>1 DEF Photos!Serve
  <2> QED
    BY <2>1, <2>2, PhotosStore, PhotosStoreFails, PhotosSave, PhotosRollback, PhotosCommitLost,
       PhotosCheckOutcome, PhotosCleanUp, PhotosDeleteDiscarded
<1> QED
  BY <1>1, PhotosUpload, PhotosApply, PhotosDiscard, PhotosDeleteWall, PhotosCommitEnds, PhotosDrain,
     PhotosRestart DEF Photos!Next

LEMMA AtMostOne ==
    ASSUME NEW S, \A x, y \in S : x = y
    PROVE  Cardinality(S) <= 1
<1>1. CASE S = {}
  BY <1>1, FS_EmptySet
<1>2. CASE S # {}
  <2>1. PICK x \in S : S = {x}
    BY <1>2
  <2> QED
    BY <2>1, FS_Singleton
<1> QED
  BY <1>1, <1>2

LEMMA PhotosAreKept == PhotosInv => Photos!PhotoIsStored /\ Photos!NothingIsForgotten
<1> SUFFICES ASSUME PhotosInv PROVE Photos!PhotoIsStored /\ Photos!NothingIsForgotten
  OBVIOUS
<1>1. Cardinality(Photos!Active) <= 1 /\ Cardinality(Photos!Pending) <= 1
  BY AtMostOne DEF PhotosInv, OneOfEach
<1>2. Held \subseteq UNION {q.junk \cup {q.key} : q \in photoRequests}
  BY DEF Held, Holds
<1>3. Photos!PhotoIsStored
  <2>1. RowsAreStored
    BY DEF PhotosInv
  <2> QED
    BY <1>1, <2>1 DEF RowsAreStored, Photos!PhotoIsStored, Photos!Cardinality, Cardinality
<1>4. Photos!NothingIsForgotten
  <2>1. ObjectsAreHeld
    BY DEF PhotosInv
  <2> QED
    BY <1>2, <2>1 DEF ObjectsAreHeld, Photos!NothingIsForgotten
<1> QED
  BY <1>3, <1>4

-----------------------------------------------------------------------------
(* The pages.                                                              *)

PicturesIInv ==
    /\ screen = "picture" => PictureInv
    /\ screen = "photos" => PhotosInv

LEMMA PicturesInit == PagesInit => PicturesIInv
BY PictureInit, PhotosInit DEF PagesInit, PicturesIInv

LEMMA PicturesNext == PicturesIInv /\ [PagesNext]_pages => PicturesIInv'
<1> SUFFICES ASSUME PicturesIInv, [PagesNext]_pages PROVE PicturesIInv'
  OBVIOUS
<1>1. CASE UNCHANGED pages
  <2>1. screen' = screen
    BY <1>1 DEF pages
  <2>2. PictureInv => PictureInv'
    BY <1>1, PictureIdle DEF pages, pictureVars
  <2>3. PhotosInv => PhotosInv'
    BY <1>1, PhotosQuietEnd DEF pages, photoVars, PhotosInv, PhotosTyped, ObjectsAreHeld, Held, Holds, Photos!KeysOf
  <2> QED
    BY <2>1, <2>2, <2>3 DEF PicturesIInv
<1>2. CASE PagesNext
  <2>1. screen' = screen
    BY <1>2 DEF PagesNext
  <2>2. /\ screen = "picture" => Picture!Next
        /\ screen = "photos" => Photos!Next
    BY <1>2 DEF PagesNext, Editing, Caching, Shooting, Listing, Reviewing, Logging, Reading, Ordering,
       Picturing, Storing, Counting
  <2> QED
    BY <2>1, <2>2, PictureNext, PhotosNext DEF PicturesIInv
<1> QED
  BY <1>1, <1>2

\* The picture or photo that a row names is stored, whatever the devices, the sign-ins, the
\* uploads, the resets, the queue and the faults; and no object is forgotten that the code
\* does not give up knowingly.
THEOREM PicturesKept == PagesSpec => []PicturesAreKept
<1>1. PicturesIInv => PicturesAreKept
  BY PictureIsKept, PhotosAreKept DEF PicturesIInv, PicturesAreKept
<1> QED
  BY <1>1, PicturesInit, PicturesNext, PTL DEF PagesSpec

-----------------------------------------------------------------------------
(* Their types.                                                            *)

\* The page is left once, and then no stream is asked for any more.
CameraBounded == Camera!TypeOK /\ (cameraMounted => gen <= MaxOpens)

LEMMA CameraTypesInit == Camera!Init => CameraBounded
<1> SUFFICES ASSUME Camera!Init PROVE CameraBounded
  OBVIOUS
<1>1. opener.lens = None /\ stream.lens = None
  BY DEF Camera!Init, Camera!NoStream, Camera!Idle
<1>2. \A s \in Shots : shot[s].step = "idle"
  BY DEF Camera!Init, Camera!NoShot
<1>3. gen \in 0..MaxOpens /\ photos \in 0..MaxPhotos /\ live = {} /\ full = {}
  BY BoundsAreNumbers DEF Camera!Init
<1>4. /\ cameraMounted \in BOOLEAN /\ granted \in BOOLEAN /\ ready \in BOOLEAN
      /\ switching \in BOOLEAN /\ listed \in BOOLEAN /\ busy \in BOOLEAN
      /\ savedLens \in Lens \cup {None} /\ before = None /\ active = None
  BY DEF Camera!Init
<1>5. gen \in 0..MaxOpens + 1 /\ gen <= MaxOpens
  BY <1>3, BoundsAreNumbers
<1> QED
  BY <1>1, <1>2, <1>3, <1>4, <1>5 DEF CameraBounded, Camera!TypeOK

LEMMA CameraTypesIdle == CameraBounded /\ UNCHANGED cameraVars => CameraBounded'
BY DEF CameraBounded, Camera!TypeOK, cameraVars

\* What concerns the lenses, and what concerns the captures.
LensBounded ==
    /\ cameraMounted \in BOOLEAN /\ granted \in BOOLEAN /\ ready \in BOOLEAN
    /\ switching \in BOOLEAN /\ listed \in BOOLEAN
    /\ {savedLens, before, active, opener.lens, stream.lens} \subseteq Lens \cup {None}
    /\ gen \in 0..MaxOpens + 1
    /\ live \subseteq [gen : 1..MaxOpens + 1, lens : Lens]
    /\ cameraMounted => gen <= MaxOpens

ShotsBounded ==
    /\ busy \in BOOLEAN
    /\ full \subseteq [gen : 1..MaxOpens + 1, lens : Lens]
    /\ photos \in 0..MaxPhotos

LEMMA CameraParts == ShotsTyped => (CameraBounded <=> LensBounded /\ ShotsBounded)
BY DEF CameraBounded, Camera!TypeOK, LensBounded, ShotsBounded, ShotsTyped

LEMMA OpensAreBounded ==
    ASSUME LensBounded, NEW for, NEW lens \in Lens \cup {None}, Camera!Open(for, lens)
    PROVE  /\ gen' \in 1..MaxOpens
           /\ live' \subseteq live
           /\ stream'.lens = None /\ opener'.lens = lens
BY BoundsAreNumbers DEF LensBounded, Camera!Open, Camera!NoStream

LEMMA LensTypesNext ==
    ASSUME LensInv, LensBounded, [Camera!Next]_cameraVars
    PROVE  LensBounded'
<1> USE BoundsAreNumbers
<1>1. CASE Camera!Listed
  <2>1. Camera!PreferredLens(Camera!ListLenses) \in Lens \cup {None}
    BY DEF Camera!PreferredLens, Camera!ListLenses
  <2>2. (gen' \in 1..MaxOpens /\ live' \subseteq live /\ stream'.lens = None
            /\ opener'.lens \in Lens \cup {None} /\ UNCHANGED <<ready, listed>>)
        \/ (ready' \in BOOLEAN /\ listed' \in BOOLEAN /\ opener' = Camera!Idle /\ UNCHANGED <<gen, live, stream>>)
    BY <1>1, <2>1, OpensAreBounded DEF Camera!Listed, LensBounded
  <2> QED
    BY <1>1, <2>2 DEF Camera!Listed, LensBounded, Camera!Idle
<1>2. ASSUME NEW lens \in Lens, Camera!Granted(lens) PROVE LensBounded'
  <2>1. opener.gen = gen => gen \in 1..MaxOpens + 1
    BY <1>2 DEF LensInv, LensTyped, AskingIsAlone, LensBounded, Camera!Granted
  <2>2. opener'.lens \in Lens \cup {None}
    <3>1. opener \in Openers
      BY DEF LensInv, LensTyped
    <3>2. CASE opener' = Camera!Idle
      BY <3>2 DEF Camera!Idle
    <3>3. CASE opener' = [opener EXCEPT !.step = "playing", !.lens = lens]
      <4>1. opener'.lens = lens
        BY <3>1, <3>3 DEF Openers
      <4> QED
        BY <4>1
    <3> QED
      BY <1>2, <3>2, <3>3 DEF Camera!Granted
  <2>3. CASE opener.gen = gen
    <3>1. stream' = [gen |-> gen, lens |-> lens] /\ live' = live \cup {stream'} /\ active' = lens
      BY <1>2, <2>3 DEF Camera!Granted
    <3>2. live' \subseteq [gen : 1..MaxOpens + 1, lens : Lens]
      BY <2>1, <2>3, <3>1 DEF LensBounded
    <3> QED
      BY <1>2, <2>2, <2>3, <3>1, <3>2 DEF Camera!Granted, LensBounded
  <2>4. CASE opener.gen # gen
    BY <1>2, <2>2, <2>4 DEF Camera!Granted, LensBounded
  <2> QED
    BY <2>3, <2>4
<1>3. CASE Camera!Playing
  BY <1>3 DEF Camera!Playing, LensBounded, Camera!Idle
<1>4. CASE Camera!StartFails \/ Camera!BackFails \/ Camera!AskAgain
  <2>1. opener'.lens \in Lens \cup {None}
    BY <1>4 DEF Camera!StartFails, Camera!BackFails, Camera!AskAgain, LensInv, LensTyped, Openers, Lenses, Camera!Idle
  <2>2. /\ UNCHANGED <<cameraMounted, granted, savedLens, gen, stream, live, before, listed, active>>
        /\ ready' \in BOOLEAN /\ switching' \in BOOLEAN
    BY <1>4 DEF Camera!StartFails, Camera!BackFails, Camera!AskAgain, LensBounded
  <2> QED
    BY <2>1, <2>2 DEF LensBounded
<1>5. CASE Camera!SwitchFails
  <2>1. gen' \in 1..MaxOpens /\ live' \subseteq live /\ stream'.lens = None /\ opener'.lens \in Lens \cup {None}
    BY <1>5, OpensAreBounded DEF Camera!SwitchFails, LensBounded
  <2> QED
    BY <1>5, <2>1 DEF Camera!SwitchFails, LensBounded
<1>6. ASSUME NEW lens \in Lens, Camera!SwitchLens(lens) PROVE LensBounded'
  <2>1. gen' \in 1..MaxOpens /\ live' \subseteq live /\ stream'.lens = None /\ opener'.lens \in Lens \cup {None}
    BY <1>6, OpensAreBounded DEF Camera!SwitchLens
  <2> QED
    BY <1>6, <2>1 DEF Camera!SwitchLens, LensBounded
<1>7. ASSUME cameraMounted, Camera!Cleanup,
             UNCHANGED <<granted, savedLens, opener, before, ready, switching, listed, active>>
      PROVE  LensBounded'
  <2>1. stream'.lens = None /\ gen' \in 0..MaxOpens + 1 /\ ~cameraMounted' /\ live' \subseteq live
    BY <1>7 DEF Camera!Cleanup, LensBounded, Camera!NoStream
  <2>2. cameraMounted' \in BOOLEAN
    BY <1>7 DEF Camera!Cleanup
  <2> QED
    BY <1>7, <2>1, <2>2 DEF LensBounded
<1>8. CASE Camera!LeavePage
  BY <1>7, <1>8 DEF Camera!LeavePage
<1>9. ASSUME NEW s \in Shots, Camera!Uploaded(s) PROVE LensBounded'
  BY <1>7, <1>9 DEF Camera!Uploaded, LensBounded
<1>10. CASE UNCHANGED Camera!lensVars
  BY <1>10 DEF Camera!lensVars, LensBounded
<1>11. CASE UNCHANGED cameraVars
  BY <1>11 DEF cameraVars, LensBounded
<1>12. ASSUME NEW s \in Shots, Camera!Capture(s) \/ Camera!ChooseFile(s) \/ Camera!Develop(s) PROVE LensBounded'
  BY <1>9, <1>10, <1>12 DEF Camera!Capture, Camera!ChooseFile, Camera!Develop, Camera!PhotoTaken, Camera!PhotoFails,
     Camera!Raise, Camera!Restore, Camera!DrawFrame, Camera!UploadFails
<1> QED
  BY <1>1, <1>2, <1>3, <1>4, <1>5, <1>6, <1>8, <1>11, <1>12 DEF Camera!Next, Camera!Answer

LEMMA ShotsTypesNext ==
    ASSUME LensBounded, ShotsBounded, [Camera!Next]_cameraVars
    PROVE  ShotsBounded'
<1> USE BoundsAreNumbers
<1>1. CASE UNCHANGED Camera!shotVars
  BY <1>1 DEF Camera!shotVars, ShotsBounded
<1>2. CASE \/ Camera!Answer \/ Camera!LeavePage \/ \E lens \in Lens : Camera!SwitchLens(lens)
  BY <1>1, <1>2 DEF Camera!Answer, Camera!LeavePage, Camera!SwitchLens, Camera!Listed, Camera!Granted, Camera!Playing,
     Camera!StartFails, Camera!SwitchFails, Camera!BackFails, Camera!AskAgain
<1>3. ASSUME NEW s \in Shots, Camera!Capture(s) \/ Camera!ChooseFile(s) PROVE ShotsBounded'
  <2>1. photos' \in 0..MaxPhotos
    BY <1>3 DEF Camera!Capture, Camera!ChooseFile, ShotsBounded
  <2>2. busy' \in BOOLEAN /\ full' = full
    BY <1>3 DEF Camera!Capture, Camera!ChooseFile, ShotsBounded
  <2> QED
    BY <2>1, <2>2 DEF ShotsBounded
<1>4. ASSUME NEW s \in Shots, Camera!Develop(s) PROVE ShotsBounded'
  <2>1. full' \subseteq full \cup live /\ busy' \in BOOLEAN /\ UNCHANGED photos
    BY <1>4 DEF Camera!Develop, Camera!PhotoTaken, Camera!PhotoFails, Camera!Raise, Camera!Restore,
       Camera!DrawFrame, Camera!Uploaded, Camera!UploadFails, ShotsBounded
  <2> QED
    BY <2>1 DEF ShotsBounded, LensBounded
<1>5. CASE UNCHANGED cameraVars
  BY <1>1, <1>5 DEF cameraVars, Camera!shotVars
<1> QED
  BY <1>2, <1>3, <1>4, <1>5 DEF Camera!Next

PictureBounded == PictureTyped /\ Picture!TypeOK /\ avatarMade <= MaxUploads

LEMMA PictureTypesInit == Picture!Init => PictureBounded
<1> SUFFICES ASSUME Picture!Init PROVE PictureBounded
  OBVIOUS
<1>1. MaxUploads \in Nat /\ 0 \in 0..MaxUploads /\ 0 # None
  BY BoundsAreNumbers, NoneIsNoNumber
<1>2. PictureTyped
  BY PictureInit DEF PictureInv
<1>3. me = avatarKey /\ preparing = FALSE /\ avatarMade = 0
  BY DEF Picture!Init
<1>5. preparing \in BOOLEAN
  BY <1>3
<1>6. avatarMade <= MaxUploads
  BY <1>1, <1>3
<1>4. /\ avatarKey \in Picture!Keys \cup {None} /\ objects \subseteq Picture!Keys
      /\ source \in {"upload", "oidc", None}
      /\ (avatarKey = None) = (source = None)
  BY <1>1, NoneIsNoSource DEF Picture!Init, Picture!Keys
<1> QED
  BY <1>1, <1>2, <1>3, <1>4, <1>5, <1>6 DEF PictureBounded, Picture!TypeOK

LEMMA PictureTypesNext ==
    ASSUME PictureTyped, PictureTyped', PictureBounded, [Picture!Next]_pictureVars
    PROVE  PictureBounded'
<1> USE BoundsAreNumbers, NoneIsNoNumber, NoneIsNoSource DEF PictureBounded, Picture!TypeOK, Picture!Keys
<1>1. ASSUME UNCHANGED <<avatarKey, source, objects, avatarMade, me, preparing>> PROVE PictureBounded'
  BY <1>1
<1>2. CASE UNCHANGED pictureVars
  BY <1>1, <1>2 DEF pictureVars
<1>3. ASSUME NEW by, NEW op, Picture!Request(by, op), UNCHANGED <<avatarKey, source, objects, me>>, preparing' \in BOOLEAN
      PROVE  PictureBounded'
  BY <1>3 DEF Picture!Request, PictureTyped
<1>4. CASE Picture!SyncPicture \/ Picture!OtherDevice \/ Picture!RemovePicture
  BY <1>3, <1>4 DEF Picture!SyncPicture, Picture!OtherDevice, Picture!RemovePicture, Picture!rowVars, Picture!pageVars
<1>5. CASE Picture!ChooseFile \/ Picture!Prepared
  BY <1>3, <1>5 DEF Picture!ChooseFile, Picture!Prepared, Picture!rowVars
<1>6. CASE Picture!Serve
  <2>1. UNCHANGED <<avatarMade, me, preparing>>
    BY <1>6 DEF Picture!Serve, Picture!pageVars
  <2>2. PICK c \in avatarCalls :
            \/ Picture!Store(c) \/ Picture!StoreFails(c) \/ Picture!UpdateUserAvatar(c) \/ Picture!UpdateFails(c)
            \/ Picture!DeleteOld(c) \/ Picture!DeleteFails(c)
    BY <1>6 DEF Picture!Serve
  <2>3. c.id \in 1..avatarMade /\ c.op \in {"set", "clear", "sync"}
    BY DEF PictureTyped, PictureCalls
  <2>4. source' \in {"upload", "oidc", None} /\ (avatarKey' = None) = (source' = None)
    BY <2>2, <2>3 DEF Picture!Store, Picture!StoreFails, Picture!UpdateUserAvatar, Picture!UpdateFails, Picture!DeleteOld,
       Picture!DeleteFails, Picture!Updated, Picture!rowVars
  <2>5. avatarKey' \in 0..MaxUploads \cup {None} /\ objects' \subseteq 0..MaxUploads
    BY <2>1 DEF PictureTyped
  <2> QED
    BY <2>1, <2>4, <2>5
<1>7. CASE Picture!Answer
  BY <1>7 DEF Picture!Answer, Picture!rowVars, PictureTyped
<1> QED
  BY <1>2, <1>4, <1>5, <1>6, <1>7 DEF Picture!Next

PhotosBounded == photoWall \in BOOLEAN /\ photosMade <= MaxImages

LEMMA PhotosTypes == PhotosInv /\ PhotosBounded => Photos!TypeOK
<1> SUFFICES ASSUME PhotosInv, PhotosBounded PROVE Photos!TypeOK
  OBVIOUS
<1>1. Cardinality(photosOpen) <= 1
  BY AtMostOne DEF PhotosInv, OneOfEach
<1>2. photosMade \in 0..MaxImages
  BY BoundsAreNumbers DEF PhotosInv, PhotosTyped, PhotosBounded
<1>3. Photos!KeysOf(photoRows) \cup photoObjects \cup queue \subseteq Photos!Keys
  BY <1>2, BoundsAreNumbers DEF PhotosInv, PhotosTyped, Photos!Keys
<1>4. \A r \in photoRows : r.key \in Photos!Keys /\ r.status \in {"active", "old", "pending"}
  BY <1>3 DEF PhotosInv, PhotosTyped, Images, Photos!KeysOf
<1> QED
  BY <1>1, <1>2, <1>3, <1>4 DEF PhotosInv, PhotosTyped, PhotosBounded, Photos!TypeOK, Photos!Cardinality, Cardinality

LEMMA PhotosTypesNext ==
    ASSUME PhotosBounded, photosMade \in Nat, [Photos!Next]_photoVars
    PROVE  PhotosBounded'
<1> USE BoundsAreNumbers DEF PhotosBounded
<1>1. CASE Photos!UploadImage
  BY <1>1 DEF Photos!UploadImage
<1>2. CASE UNCHANGED photoVars
  BY <1>2 DEF photoVars
<1>3. CASE Photos!ApplyReset \/ Photos!DiscardReset \/ Photos!DeleteWall \/ Photos!CommitEnds \/ Photos!TakeNext
           \/ Photos!MinutePasses \/ Photos!Restart
  BY <1>3 DEF Photos!ApplyReset, Photos!DiscardReset, Photos!DeleteWall, Photos!CommitEnds, Photos!TakeNext,
     Photos!MinutePasses, Photos!Restart
<1>4. CASE Photos!Serve \/ Photos!DrainQueue
  BY <1>4 DEF Photos!Serve, Photos!DrainQueue, Photos!DeleteStored
<1> QED
  BY <1>1, <1>2, <1>3, <1>4 DEF Photos!Next

PhotoPagesIInv ==
    /\ screen = "camera" => CameraInv /\ CameraBounded
    /\ screen = "review" => ReviewInv
    /\ screen = "picture" => PictureInv /\ PictureBounded
    /\ screen = "photos" => PhotosInv /\ PhotosBounded

LEMMA PhotoPagesInit == PagesInit => PhotoPagesIInv
<1> SUFFICES ASSUME PagesInit PROVE PhotoPagesIInv
  OBVIOUS
<1>1. CameraInv /\ CameraBounded
  BY LensInit, ShotsInit, CameraTypesInit DEF PagesInit, CameraInv
<1>2. ReviewInv
  BY ReviewInit DEF PagesInit
<1>3. PictureInv /\ PictureBounded
  BY PictureInit, PictureTypesInit DEF PagesInit
<1>4. PhotosInv /\ PhotosBounded
  <2>1. photoWall = TRUE /\ photosMade = 0
    BY DEF PagesInit, Photos!Init
  <2> QED
    BY <2>1, PhotosInit, BoundsAreNumbers DEF PagesInit, PhotosBounded
<1> QED
  BY <1>1, <1>2, <1>3, <1>4 DEF PhotoPagesIInv

LEMMA PhotoPagesNext == PhotoPagesIInv /\ [PagesNext]_pages => PhotoPagesIInv'
<1> SUFFICES ASSUME PhotoPagesIInv, [PagesNext]_pages PROVE PhotoPagesIInv'
  OBVIOUS
<1>1. screen' = screen
  BY DEF PagesNext, pages
<1>2. /\ screen = "camera" => [Camera!Next]_cameraVars
      /\ screen = "review" => [Review!Next]_reviewVars
      /\ screen = "picture" => [Picture!Next]_pictureVars
      /\ screen = "photos" => [Photos!Next]_photoVars
  BY DEF PagesNext, pages, Editing, Caching, Shooting, Listing, Reviewing, Logging, Reading, Ordering,
     Picturing, Storing, Counting
<1>3. ASSUME CameraInv, CameraBounded, [Camera!Next]_cameraVars PROVE CameraInv' /\ CameraBounded'
  <2>1. CameraInv'
    BY <1>3, LensNext, ShotsNext, LensIdle, ShotsIdle DEF CameraInv, cameraVars
  <2>2. ShotsTyped /\ ShotsTyped'
    BY <1>3, <2>1 DEF CameraInv, ShotsInv
  <2>3. LensBounded /\ ShotsBounded
    BY <1>3, <2>2, CameraParts
  <2>4. LensBounded' /\ ShotsBounded'
    BY <1>3, <2>3, LensTypesNext, ShotsTypesNext DEF CameraInv
  <2>5. (LensBounded /\ ShotsBounded => CameraBounded)'
    BY <2>2 DEF CameraBounded, Camera!TypeOK, LensBounded, ShotsBounded, ShotsTyped
  <2> QED
    BY <2>1, <2>4, <2>5
<1>4. ASSUME ReviewInv, [Review!Next]_reviewVars PROVE ReviewInv'
  BY <1>4, ReviewNext, ReviewIdle
<1>5. ASSUME PictureInv, PictureBounded, [Picture!Next]_pictureVars PROVE PictureInv' /\ PictureBounded'
  <2>1. PictureInv'
    BY <1>5, PictureNext, PictureIdle DEF pictureVars
  <2> QED
    BY <1>5, <2>1, PictureTypesNext DEF PictureInv
<1>6. ASSUME PhotosInv, PhotosBounded, [Photos!Next]_photoVars PROVE PhotosInv' /\ PhotosBounded'
  <2>1. CASE UNCHANGED photoVars
    BY <1>6, <2>1, PhotosQuietEnd DEF photoVars, PhotosInv, PhotosTyped, ObjectsAreHeld, Held, Holds, Photos!KeysOf,
       PhotosBounded
  <2>2. CASE Photos!Next
    BY <1>6, <2>2, PhotosNext, PhotosTypesNext DEF PhotosInv, PhotosTyped
  <2> QED
    BY <1>6, <2>1, <2>2
<1> QED
  BY <1>1, <1>2, <1>3, <1>4, <1>5, <1>6 DEF PhotoPagesIInv

LEMMA PhotoPagesTypes ==
    PhotoPagesIInv =>
        /\ screen = "camera" => Camera!TypeOK
        /\ screen = "review" => Review!TypeOK
        /\ screen = "picture" => Picture!TypeOK
        /\ screen = "photos" => Photos!TypeOK
BY PhotosTypes DEF PhotoPagesIInv, CameraBounded, ReviewInv, ReviewTyped, PictureBounded

=============================================================================
