----------------------------- MODULE WallCamera -----------------------------
(***************************************************************************)
(* The page that photographs a wall for a reset                            *)
(* (web/src/pages/WallCamera.tsx): it opens the preferred lens, switches   *)
(* between lenses, and uploads a photo of the camera or of the library.    *)
(*                                                                         *)
(* One visit of the page is modelled.  The device answers asynchronously   *)
(* and may refuse; the page may be left at any moment, and what was        *)
(* awaited then goes on.  A stream is known by the number of the request   *)
(* that opened it and by its lens.                                         *)
(***************************************************************************)
EXTENDS Integers, FiniteSets

CONSTANTS
    Lens,       \* the rear lenses that can be told apart
    UltraWide,  \* the lens labelled 0.5x, or None
    Shots,      \* the captures and library photos that can be under way together
    MaxOpens,   \* bounds the requests for a stream
    MaxPhotos,  \* bounds the photos
    None

VARIABLES
    mounted,  \* the page is shown
    granted,  \* the permission is given: lenses have labels
    saved,    \* the lens in localStorage
    gen,      \* streamGenRef
    stream,   \* streamRef: the page's stream
    live,     \* the streams whose tracks have not been stopped
    opener,   \* openStream under way and what it is for
    before,   \* the lens that a switch leaves
    ready, switching, listed,
    active,   \* activeLens
    busy,
    shot,     \* the captures under way: their step, the track and the preview they saw
    full,     \* the streams raised to full size
    photos

vars == <<mounted, granted, saved, gen, stream, live, opener, before, ready, switching, listed,
          active, busy, shot, full, photos>>

lensVars == <<mounted, granted, saved, gen, stream, live, opener, before, ready, switching, listed, active>>
shotVars == <<busy, shot, full, photos>>

NoStream == [gen |-> 0, lens |-> None]
Idle == [for |-> "nothing", step |-> "idle", gen |-> 0, lens |-> None, attempt |-> 0]
NoShot == [step |-> "idle", track |-> NoStream, preview |-> FALSE]

Init ==
    /\ mounted = TRUE
    /\ granted \in BOOLEAN
    /\ saved \in Lens \cup {None}
    /\ gen = 0 /\ stream = NoStream /\ live = {}
    /\ opener = [Idle EXCEPT !.for = "first", !.step = "listing"]
    /\ before = None
    /\ ready = FALSE /\ switching = FALSE /\ listed = FALSE
    /\ active = None
    /\ busy = FALSE /\ shot = [s \in Shots |-> NoShot] /\ full = {} /\ photos = 0

-----------------------------------------------------------------------------
(* Opening a stream.                                                       *)

\* Their labels are hidden until the camera has been permitted.
ListLenses == IF granted THEN Lens ELSE {}

PreferredLens(available) ==
    IF saved \in available THEN saved ELSE IF UltraWide \in available THEN UltraWide ELSE None

OpenBesides(for, lens) ==                                              \* mutant
    /\ gen < MaxOpens
    /\ gen' = gen + 1
    /\ stream' = NoStream
    /\ opener' = [for |-> for, step |-> "asking", gen |-> gen + 1, lens |-> lens, attempt |-> 1]
    /\ UNCHANGED live

\* openStream up to its first await: the stream at hand is stopped.
Open(for, lens) ==
    /\ gen < MaxOpens                                                   \* bound
    /\ gen' = gen + 1
    /\ live' = live \ {stream} /\ stream' = NoStream
    /\ opener' = [for |-> for, step |-> "asking", gen |-> gen + 1, lens |-> lens, attempt |-> 1]

\* startCamera, after listLenses.
Listed ==
    /\ opener.step = "listing"
    /\ LET available == ListLenses
           preferred == PreferredLens(available)
       IN  IF opener.for = "first"
           THEN /\ Open(IF granted THEN "preferred" ELSE "first", preferred)
                /\ UNCHANGED <<ready, listed>>
           ELSE \* the second listing, once the default camera plays
                IF preferred \notin {None, active}
                THEN Open("preferred", preferred) /\ UNCHANGED <<ready, listed>>
                ELSE /\ ready' = (ready \/ mounted) /\ listed' = (listed \/ mounted)
                     /\ opener' = Idle
                     /\ UNCHANGED <<gen, live, stream>>
    /\ UNCHANGED <<mounted, granted, saved, before, switching, active>>
    /\ UNCHANGED shotVars

\* requestStream: the lens that was asked for, or any, which the browser chooses.
Requested == IF opener.lens = None \/ opener.attempt = 3 THEN Lens ELSE {opener.lens}

\* The media is there.  A request that is no longer the latest stops it.
Granted(lens) ==
    /\ opener.step = "asking"
    /\ lens \in Requested
    /\ granted' = TRUE
    /\ IF opener.gen = gen
       THEN /\ stream' = [gen |-> gen, lens |-> lens]
            /\ live' = live \cup {stream'}
            /\ active' = lens
            /\ opener' = [opener EXCEPT !.step = "playing", !.lens = lens]
            /\ UNCHANGED switching
       ELSE /\ opener' = Idle
            /\ switching' = FALSE
            /\ UNCHANGED <<stream, live, active>>
    /\ UNCHANGED <<mounted, saved, gen, before, ready, listed>>
    /\ UNCHANGED shotVars

\* video.play() has settled, whichever way.
Playing ==
    LET current == opener.gen = gen
    IN  /\ opener.step = "playing"
        /\ opener' = IF opener.for = "first" /\ current
                     THEN [Idle EXCEPT !.for = "again", !.step = "listing"] ELSE Idle
        /\ saved' = IF opener.for = "switch" /\ current THEN opener.lens ELSE saved
        /\ ready' = CASE opener.for = "back"                          -> current
                      [] opener.for \in {"preferred", "switch"} /\ current -> ready \/ mounted
                      [] OTHER                                        -> ready
        /\ listed' = (listed \/ (opener.for = "preferred" /\ current /\ mounted))
        /\ switching' = (switching /\ opener.for \notin {"switch", "back"})
        /\ UNCHANGED <<mounted, granted, gen, stream, live, before, active>>
        /\ UNCHANGED shotVars

\* getUserMedia rejects: once more without a size, then, unless a lens was asked for by
\* hand, with the default camera.
AskAgain ==
    /\ opener.step = "asking" /\ opener.lens # None
    /\ opener.attempt = 1 \/ (opener.attempt = 2 /\ opener.for \in {"first", "preferred"})
    /\ opener' = [opener EXCEPT !.attempt = @ + 1]
    /\ UNCHANGED <<mounted, granted, saved, gen, stream, live, before, ready, switching, listed, active>>
    /\ UNCHANGED shotVars

CannotAskAgain ==
    /\ opener.step = "asking"
    /\ \/ opener.lens = None
       \/ opener.attempt = 3
       \/ opener.attempt = 2 /\ opener.for \in {"switch", "back"}

StartFails ==
    /\ CannotAskAgain /\ opener.for \in {"first", "preferred"}
    /\ ready' = (ready /\ ~mounted)
    /\ opener' = Idle
    /\ UNCHANGED <<mounted, granted, saved, gen, stream, live, before, switching, listed, active>>
    /\ UNCHANGED shotVars

\* The lens before, or the default camera, is opened again.
SwitchFails ==
    /\ CannotAskAgain /\ opener.for = "switch"
    /\ Open("back", before)
    /\ UNCHANGED <<mounted, granted, saved, before, ready, switching, listed, active>>
    /\ UNCHANGED shotVars

BackFailsQuietly ==                                                    \* mutant
    /\ CannotAskAgain /\ opener.for = "back"
    /\ switching' = FALSE
    /\ opener' = Idle
    /\ UNCHANGED <<mounted, granted, saved, gen, stream, live, before, ready, listed, active>>
    /\ UNCHANGED shotVars

BackFails ==
    /\ CannotAskAgain /\ opener.for = "back"
    /\ ready' = FALSE /\ switching' = FALSE
    /\ opener' = Idle
    /\ UNCHANGED <<mounted, granted, saved, gen, stream, live, before, listed, active>>
    /\ UNCHANGED shotVars

\* The pills are shown for two lenses or more.
SwitchLens(lens) ==
    /\ mounted /\ listed /\ Cardinality(Lens) > 1
    /\ ~switching /\ ~busy
    /\ before' = stream.lens
    /\ switching' = TRUE
    /\ Open("switch", lens)
    /\ UNCHANGED <<mounted, granted, saved, ready, listed, active>>
    /\ UNCHANGED shotVars

\* The cleanup of the effect.
Cleanup ==
    /\ mounted' = FALSE
    /\ gen' = gen + 1
    /\ live' = live \ {stream} /\ stream' = NoStream

LeavePage ==
    /\ mounted
    /\ Cleanup
    /\ UNCHANGED <<granted, saved, opener, before, ready, switching, listed, active>>
    /\ UNCHANGED shotVars

-----------------------------------------------------------------------------
(* Taking and uploading a photo.                                           *)

Capture(s) ==
    /\ mounted /\ ready /\ ~busy /\ shot[s] = NoShot
    /\ photos < MaxPhotos                                               \* bound
    /\ photos' = photos + 1
    /\ \/ \* ImageCapture: the page is not busy until there is a photo
          /\ stream # NoStream
          /\ shot' = [shot EXCEPT ![s] = [step |-> "photo", track |-> stream, preview |-> FALSE]]
          /\ UNCHANGED busy
       \/ /\ shot' = [shot EXCEPT ![s] =
                        [step |-> IF stream = NoStream THEN "frame" ELSE "raise",
                         track |-> stream, preview |-> stream \notin full]]
          /\ busy' = TRUE
    /\ UNCHANGED full /\ UNCHANGED lensVars

ChooseFile(s) ==
    /\ mounted /\ ~busy /\ shot[s] = NoShot
    /\ photos < MaxPhotos                                               \* bound
    /\ photos' = photos + 1
    /\ shot' = [shot EXCEPT ![s].step = "upload"]
    /\ busy' = TRUE
    /\ UNCHANGED full /\ UNCHANGED lensVars

PhotoTaken(s) ==
    /\ shot[s].step = "photo"
    /\ shot' = [shot EXCEPT ![s].step = "upload"]
    /\ busy' = TRUE
    /\ UNCHANGED <<full, photos>> /\ UNCHANGED lensVars

PhotoFails(s) ==
    /\ shot[s].step = "photo"
    /\ shot' = [shot EXCEPT ![s].step = "raise", ![s].preview = shot[s].track \notin full]
    /\ busy' = TRUE
    /\ UNCHANGED <<full, photos>> /\ UNCHANGED lensVars

\* drawFullSizeFrame: the track is raised, a frame of it drawn if it is larger than the
\* preview was, and the preview restored.  A stopped track is not raised.
Raise(s) ==
    /\ shot[s].step = "raise"
    /\ \/ full' = full \cup ({shot[s].track} \cap live)
       \/ UNCHANGED full
    /\ shot' = [shot EXCEPT ![s].step = "restore"]
    /\ UNCHANGED <<busy, photos>> /\ UNCHANGED lensVars

RestoreIfDrawn(s) ==                                                   \* mutant
    /\ shot[s].step = "restore"
    /\ full' = IF shot[s].preview THEN full \ {shot[s].track} ELSE full
    /\ shot' = [shot EXCEPT ![s].step = IF shot[s].preview /\ shot[s].track \in full THEN "upload" ELSE "frame"]
    /\ UNCHANGED <<busy, photos>> /\ UNCHANGED lensVars

Restore(s) ==
    /\ shot[s].step = "restore"
    /\ full' = full \ {shot[s].track}
    /\ \/ /\ shot[s].preview /\ shot[s].track \in full
          /\ shot' = [shot EXCEPT ![s].step = "upload"]
       \/ shot' = [shot EXCEPT ![s].step = "frame"]
    /\ UNCHANGED <<busy, photos>> /\ UNCHANGED lensVars

DrawFrameQuietly(s) ==                                                 \* mutant
    /\ shot[s].step = "frame"
    /\ \/ shot' = [shot EXCEPT ![s].step = "upload"]
       \/ shot' = [shot EXCEPT ![s] = NoShot]
    /\ UNCHANGED <<busy, full, photos>> /\ UNCHANGED lensVars

\* drawFrame and toBlob.  There may be no frame yet.
DrawFrame(s) ==
    /\ shot[s].step = "frame"
    /\ \/ shot' = [shot EXCEPT ![s].step = "upload"] /\ UNCHANGED busy
       \/ shot' = [shot EXCEPT ![s] = NoShot] /\ busy' = FALSE
    /\ UNCHANGED <<full, photos>> /\ UNCHANGED lensVars

\* The page moves on to the wall, also when it has been left in the meantime.
Uploaded(s) ==
    /\ shot[s].step = "upload"
    /\ shot' = [shot EXCEPT ![s] = NoShot]
    /\ busy' = FALSE
    /\ IF mounted THEN Cleanup ELSE UNCHANGED <<mounted, gen, stream, live>>
    /\ UNCHANGED <<granted, saved, opener, before, ready, switching, listed, active, full, photos>>

UploadFails(s) ==
    /\ shot[s].step = "upload"
    /\ shot' = [shot EXCEPT ![s] = NoShot]
    /\ busy' = FALSE
    /\ UNCHANGED <<full, photos>> /\ UNCHANGED lensVars

Answer ==
    \/ Listed \/ Playing \/ StartFails \/ SwitchFails \/ BackFails \/ AskAgain
    \/ \E lens \in Lens : Granted(lens)

Develop(s) ==
    PhotoTaken(s) \/ PhotoFails(s) \/ Raise(s) \/ Restore(s) \/ DrawFrame(s) \/ Uploaded(s) \/ UploadFails(s)

Next ==
    \/ Answer
    \/ \E lens \in Lens : SwitchLens(lens)
    \/ LeavePage
    \/ \E s \in Shots : Capture(s) \/ ChooseFile(s) \/ Develop(s)

\* The device and the server answer (nextFrame gives up after a second).
Spec == Init /\ [][Next]_vars /\ WF_vars(Answer) /\ \A s \in Shots : WF_vars(Develop(s))

-----------------------------------------------------------------------------
(* Properties.                                                             *)

TypeOK ==
    /\ mounted \in BOOLEAN /\ granted \in BOOLEAN /\ ready \in BOOLEAN
    /\ switching \in BOOLEAN /\ listed \in BOOLEAN /\ busy \in BOOLEAN
    /\ {saved, before, active, opener.lens, stream.lens} \subseteq Lens \cup {None}
    /\ gen \in 0..MaxOpens + 1
    /\ live \subseteq [gen : 1..MaxOpens + 1, lens : Lens] /\ full \subseteq [gen : 1..MaxOpens + 1, lens : Lens]
    /\ \A s \in Shots : shot[s].step \in {"idle", "photo", "raise", "restore", "frame", "upload"}
    /\ photos \in 0..MaxPhotos

\* No camera runs that the page has lost hold of: whatever was asked for, superseded or
\* answered late (openStream).
NoCameraIsLost == live \subseteq {stream}

\* The shutter is offered for a running camera and its lens is marked; a capture of a
\* camera that could not be reopened is not (switchLens, startCamera).
ReadyShowsTheStream ==
    mounted /\ ready /\ ~switching => stream \in live /\ active = stream.lens

\* Once no photo is taken, the preview has its size again (drawFullSizeFrame).
PreviewIsRestored == (\A s \in Shots : shot[s] = NoShot) => full = {}

\* The buttons come back (finally, setBusy and setSwitching).
ControlsComeBack == (busy \/ switching) ~> (~busy /\ ~switching) \/ ~mounted

\* Leaving the page releases the camera: "Bumped on every stream request and on unmount
\* so stale requests drop their stream."
CameraIsReleased == ~mounted => live = {}

=============================================================================
