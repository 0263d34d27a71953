---------------------- MODULE QCameraStateMachine_proofs ----------------------
(***************************************************************************)
(* Which channels may stream in which state of the HAL state machine, for   *)
(* every build (ZslModes, HintStores, NeedRestarts), every set of faults and*)
(* any number of pictures; and what a quiet behaviour, in which no call     *)
(* fails, promises beyond that; and at the end that the state machine       *)
(* implements PictureNotifier.                                              *)
(*                                                                          *)
(* The operations of the interface are described first, each by what it     *)
(* does to the type of the hardware record and to the channels the          *)
(* invariants speak of; the actions then need no more than those facts.     *)
(***************************************************************************)
EXTENDS QCameraStateMachine, TLAPS

HwType == [hint : BOOLEAN, ch : [Channel -> ChannelState], orphans : SUBSET Channel,
           hist : BOOLEAN, pp : BOOLEAN]

-----------------------------------------------------------------------------
(* The operations on one channel                                             *)

\* Deleting channels clears exactly their objects.
LEMMA DelChannels ==
  ASSUME NEW hw \in HwType, NEW chs \in SUBSET Channel
  PROVE  /\ delChannels(hw, chs) \in HwType
         /\ \A c \in Channel : delChannels(hw, chs).ch[c] = IF c \in chs THEN "null" ELSE hw.ch[c]
         /\ delChannels(hw, chs).pp = hw.pp
         /\ delChannels(hw, chs).hint = hw.hint
BY DEF delChannels, HwType, ChannelState

\* Starting a channel changes no other one.
LEMMA StartChannel ==
  ASSUME NEW hw \in HwType, NEW c \in Channel, NEW bad
  PROVE  /\ startChannel(hw, c, bad) \in HwType
         /\ \A d \in Channel : startChannel(hw, c, bad).ch[d] =
                                 IF d = c /\ Starts(hw, c, bad) THEN "active" ELSE hw.ch[d]
         /\ startChannel(hw, c, bad).pp = hw.pp
         /\ startChannel(hw, c, bad).hint = hw.hint
BY DEF startChannel, HwType, ChannelState

\* A stopped channel is not active, and no other one changes.
LEMMA StopChannel ==
  ASSUME NEW hw \in HwType, NEW c \in Channel
  PROVE  /\ stopChannel(hw, c) \in HwType
         /\ stopChannel(hw, c).ch[c] # "active"
         /\ \A d \in Channel \ {c} : stopChannel(hw, c).ch[d] = hw.ch[d]
         /\ stopChannel(hw, c).pp = hw.pp
         /\ stopChannel(hw, c).hint = hw.hint
BY DEF stopChannel, HwType, ChannelState

\* Stopping and deleting a channel leaves no object.
LEMMA StopAndDel ==
  ASSUME NEW hw \in HwType, NEW c \in Channel
  PROVE  /\ stopAndDel(hw, c) \in HwType
         /\ stopAndDel(hw, c).ch[c] = "null"
         /\ \A d \in Channel \ {c} : stopAndDel(hw, c).ch[d] = hw.ch[d]
         /\ stopAndDel(hw, c).pp = hw.pp
         /\ stopAndDel(hw, c).hint = hw.hint
BY StopChannel, DelChannels DEF stopAndDel

\* Adding a channel leaves a stopped one, or none if that fails.
LEMMA AddChannel ==
  ASSUME NEW hw \in HwType, NEW c \in Channel, NEW f
  PROVE  /\ addChannel(hw, c, f) \in HwType
         /\ addChannel(hw, c, f).ch[c] = IF f = c THEN "null" ELSE "stopped"
         /\ \A d \in Channel \ {c} : addChannel(hw, c, f).ch[d] = hw.ch[d]
         /\ addChannel(hw, c, f).pp = hw.pp
<1> DEFINE clean == delChannels(hw, {c})
<1>1. /\ clean \in HwType
      /\ \A d \in Channel : clean.ch[d] = IF d \in {c} THEN "null" ELSE hw.ch[d]
      /\ clean.pp = hw.pp
  BY DelChannels
<1> HIDE DEF clean
<1>2. addChannel(hw, c, f) = IF f = c THEN clean ELSE [clean EXCEPT !.ch[c] = "stopped"]
  BY DEF addChannel, clean
<1> QED
  BY <1>1, <1>2 DEF HwType, ChannelState

-----------------------------------------------------------------------------
(* The operations on the preview                                             *)

\* The channel of the preview is a channel, in ZSL mode another one.
LEMMA MainChannelType ==
  ASSUME zslMode \in BOOLEAN
  PROVE  /\ MainChannel \in {"PREVIEW", "ZSL"}
         /\ MainChannel \in Channel
         /\ zslMode <=> MainChannel = "ZSL"
BY DEF MainChannel, Channel

\* The preview never needs a capture channel, and always its main channel.
LEMMA PreviewChannelsType ==
  ASSUME zslMode \in BOOLEAN, NEW hint \in BOOLEAN
  PROVE  /\ PreviewChannels(hint) \subseteq Channel
         /\ "CAPTURE" \notin PreviewChannels(hint)
         /\ MainChannel \in PreviewChannels(hint)
         /\ "PREVIEW" \in PreviewChannels(hint) <=> ~zslMode
BY DEF PreviewChannels, MainChannel, Channel

\* No channel is active because it was prepared.
LEMMA PreparePreview ==
  ASSUME zslMode \in BOOLEAN, NEW hw \in HwType, NEW f
  PROVE  /\ preparePreview(hw, f) \in HwType
         /\ \A c \in Channel : preparePreview(hw, f).ch[c] = "active" => hw.ch[c] = "active"
         /\ preparePreview(hw, f).ch["CAPTURE"] = hw.ch["CAPTURE"]
         /\ preparePreview(hw, f).pp = hw.pp
<1> DEFINE wanted == PreviewChannels(hw.hint)
           tried  == {c \in wanted : f = NoFault \/ AddOrder[c] <= AddOrder[f]}
           clean  == delChannels(hw, tried)
<1>1. /\ wanted \subseteq Channel
      /\ "CAPTURE" \notin wanted
  BY PreviewChannelsType DEF HwType
<1>2. /\ clean \in HwType
      /\ \A c \in Channel : clean.ch[c] = IF c \in tried THEN "null" ELSE hw.ch[c]
      /\ clean.pp = hw.pp
  <2>1. tried \in SUBSET Channel
    BY <1>1
  <2> HIDE DEF tried
  <2> QED
    BY <2>1, DelChannels
<1>3. "CAPTURE" \notin tried /\ "CAPTURE" \in Channel
  BY <1>1 DEF Channel
<1>4. preparePreview(hw, f) =
        IF f = NoFault
        THEN [clean EXCEPT !.ch = [c \in Channel |-> IF c \in wanted THEN "stopped"
                                                     ELSE clean.ch[c]]]
        ELSE clean
  BY DEF preparePreview
<1> HIDE DEF clean, tried, wanted
<1> QED
  BY <1>1, <1>2, <1>3, <1>4 DEF HwType, ChannelState

\* In ZSL mode preparing the preview leaves the PREVIEW channel alone.
LEMMA PreparePreviewZsl ==
  ASSUME zslMode = TRUE, NEW hw \in HwType, NEW f
  PROVE  preparePreview(hw, f).ch["PREVIEW"] = hw.ch["PREVIEW"]
<1> DEFINE wanted == PreviewChannels(hw.hint)
           tried  == {c \in wanted : f = NoFault \/ AddOrder[c] <= AddOrder[f]}
           clean  == delChannels(hw, tried)
<1>1. wanted \subseteq Channel /\ "PREVIEW" \notin wanted /\ "PREVIEW" \in Channel
  BY PreviewChannelsType DEF HwType, Channel
<1>2. /\ clean \in HwType
      /\ clean.ch["PREVIEW"] = hw.ch["PREVIEW"]
  <2>1. tried \in SUBSET Channel /\ "PREVIEW" \notin tried
    BY <1>1
  <2> HIDE DEF tried
  <2> QED
    BY <1>1, <2>1, DelChannels
<1>3. preparePreview(hw, f) =
        IF f = NoFault
        THEN [clean EXCEPT !.ch = [c \in Channel |-> IF c \in wanted THEN "stopped"
                                                     ELSE clean.ch[c]]]
        ELSE clean
  BY DEF preparePreview
<1> HIDE DEF clean, tried, wanted
<1> QED
  BY <1>1, <1>2, <1>3 DEF HwType

\* Unpreparing the preview deletes its main channel and activates nothing.
LEMMA UnpreparePreview ==
  ASSUME zslMode \in BOOLEAN, NEW hw \in HwType
  PROVE  /\ unpreparePreview(hw) \in HwType
         /\ \A c \in Channel : unpreparePreview(hw).ch[c] \in {"null", hw.ch[c]}
         /\ ~zslMode => unpreparePreview(hw).ch["PREVIEW"] = "null"
         /\ unpreparePreview(hw).ch["CAPTURE"] = hw.ch["CAPTURE"]
         /\ unpreparePreview(hw).pp = hw.pp
<1>1. /\ PreviewChannels(hw.hint) \in SUBSET Channel
      /\ "CAPTURE" \notin PreviewChannels(hw.hint)
      /\ "PREVIEW" \in PreviewChannels(hw.hint) <=> ~zslMode
  BY PreviewChannelsType DEF HwType
<1> QED
  BY <1>1, DelChannels DEF unpreparePreview, Channel

\* Starting the preview starts no other channel than metadata and the main one,
\* and the main one exactly when it reports success.
LEMMA StartPreview ==
  ASSUME zslMode \in BOOLEAN, NEW hw \in HwType, NEW bad
  PROVE  /\ startPreview(hw, bad) \in HwType
         /\ \A c \in Channel \ {"METADATA", MainChannel} :
               startPreview(hw, bad).ch[c] = hw.ch[c]
         /\ startPreview(hw, bad).pp = hw.pp
         /\ StartPreviewOk(hw, bad) => startPreview(hw, bad).ch[MainChannel] = "active"
         /\ startPreview(hw, bad).ch[MainChannel] = "active" =>
               StartPreviewOk(hw, bad) \/ hw.ch[MainChannel] = "active"
<1> DEFINE meta == startChannel(hw, "METADATA", bad)
           both == startChannel(meta, MainChannel, bad)
<1>1. MainChannel \in Channel /\ MainChannel # "METADATA" /\ "METADATA" \in Channel
  BY MainChannelType DEF Channel
<1>2. /\ meta \in HwType
      /\ \A c \in Channel \ {"METADATA"} : meta.ch[c] = hw.ch[c]
      /\ meta.pp = hw.pp
  BY <1>1, StartChannel
<1> HIDE DEF meta
<1>3. /\ both \in HwType
      /\ \A c \in Channel : both.ch[c] =
            IF c = MainChannel /\ Starts(meta, MainChannel, bad) THEN "active" ELSE meta.ch[c]
      /\ both.pp = meta.pp
  BY <1>1, <1>2, StartChannel
<1>4. Starts(meta, MainChannel, bad) <=> Starts(hw, MainChannel, bad)
  BY <1>1, <1>2 DEF Starts
<1>5. startPreview(hw, bad) = IF ~hw.hist /\ "HISTBUF" \in bad THEN hw
                             ELSE [both EXCEPT !.hist = Starts(hw, MainChannel, bad)]
  BY DEF startPreview, meta
<1> HIDE DEF both
<1>6. Starts(hw, MainChannel, bad) \in BOOLEAN
  BY DEF Starts
<1> QED
  BY <1>1, <1>2, <1>3, <1>4, <1>5, <1>6 DEF HwType, StartPreviewOk, Starts

\* Stopping the preview leaves its main channel without an object.
LEMMA StopPreview ==
  ASSUME zslMode \in BOOLEAN, NEW hw \in HwType
  PROVE  /\ stopPreview(hw) \in HwType
         /\ \A c \in Channel : stopPreview(hw).ch[c] = "active" => hw.ch[c] = "active"
         /\ ~zslMode => stopPreview(hw).ch["PREVIEW"] = "null"
         /\ stopPreview(hw).ch["CAPTURE"] = hw.ch["CAPTURE"]
         /\ stopPreview(hw).pp = hw.pp
<1> DEFINE main == stopChannel(hw, MainChannel)
           meta == stopChannel(main, "METADATA")
           down == [meta EXCEPT !.hist = FALSE]
<1>1. MainChannel \in Channel /\ "METADATA" \in Channel /\ MainChannel # "CAPTURE"
      /\ "CAPTURE" \in Channel
  BY MainChannelType DEF Channel
<1>2. /\ main \in HwType
      /\ main.ch[MainChannel] # "active"
      /\ \A d \in Channel \ {MainChannel} : main.ch[d] = hw.ch[d]
      /\ main.pp = hw.pp
  BY <1>1, StopChannel
<1> HIDE DEF main
<1>3. /\ meta \in HwType
      /\ meta.ch["METADATA"] # "active"
      /\ \A d \in Channel \ {"METADATA"} : meta.ch[d] = main.ch[d]
      /\ meta.pp = main.pp
  BY <1>1, <1>2, StopChannel
<1> HIDE DEF meta
<1>4. down \in HwType /\ down.ch = meta.ch /\ down.pp = meta.pp
  BY <1>3 DEF HwType
<1>5. stopPreview(hw) = unpreparePreview(down)
  BY DEF stopPreview, main, meta
<1> HIDE DEF down
<1> QED
  BY <1>1, <1>2, <1>3, <1>4, <1>5, UnpreparePreview

-----------------------------------------------------------------------------
(* The operations on recordings and pictures                                 *)

\* Video frames flow after startRecording() exactly if it succeeded, or if they
\* flowed before; no capture channel is touched.
LEMMA StartRecording ==
  ASSUME zslMode \in BOOLEAN, hintStored \in BOOLEAN, NEW hw \in HwType, NEW f, NEW bad
  PROVE  /\ startRecording(hw, f, bad) \in HwType
         /\ startRecording(hw, f, bad).ch["VIDEO"] = "active" =>
               StartRecordingOk(hw, f, bad) \/ hw.ch["VIDEO"] = "active"
         /\ zslMode /\ hw.ch["PREVIEW"] # "active" =>
               startRecording(hw, f, bad).ch["PREVIEW"] # "active"
         /\ startRecording(hw, f, bad).ch["CAPTURE"] = hw.ch["CAPTURE"]
         /\ startRecording(hw, f, bad).pp = hw.pp
<1> DEFINE down    == stopAndDel(hw, "PREVIEW")
           noHint  == [down EXCEPT !.hint = hintStored]
           armed   == RearmForRecording(hw, f)
           preview == startChannel(armed, "PREVIEW", bad)
           video   == startChannel(preview, "VIDEO", bad)
<1>1. /\ "PREVIEW" \in Channel /\ "VIDEO" \in Channel /\ "CAPTURE" \in Channel
  BY DEF Channel
<1>2. CASE hw.hint
  <2>1. startRecording(hw, f, bad) = startChannel(hw, "VIDEO", bad)
    BY <1>2 DEF startRecording
  <2> QED
    BY <1>1, <1>2, <2>1, StartChannel DEF StartRecordingOk
<1>3. CASE ~hw.hint
  <2>1. /\ down \in HwType
        /\ down.ch["PREVIEW"] = "null"
        /\ \A d \in Channel \ {"PREVIEW"} : down.ch[d] = hw.ch[d]
        /\ down.pp = hw.pp
    BY <1>1, StopAndDel
  <2> HIDE DEF down
  <2>2. noHint \in HwType /\ noHint.ch = down.ch /\ noHint.pp = down.pp
    BY <2>1 DEF HwType
  <2> HIDE DEF noHint
  <2>3. armed = preparePreview(noHint, f)
    BY DEF RearmForRecording, noHint, down
  <2>4. /\ armed \in HwType
        /\ armed.ch["PREVIEW"] # "active"
        /\ armed.ch["VIDEO"] = "active" => hw.ch["VIDEO"] = "active"
        /\ armed.ch["CAPTURE"] = hw.ch["CAPTURE"]
        /\ armed.pp = hw.pp
        /\ zslMode => armed.ch["PREVIEW"] = "null"
    <3>1. zslMode => preparePreview(noHint, f).ch["PREVIEW"] = "null"
      BY <1>1, <2>1, <2>2, PreparePreviewZsl
    <3> QED
      BY <1>1, <2>1, <2>2, <2>3, <3>1, PreparePreview
  <2> HIDE DEF armed
  <2>5. /\ preview \in HwType
        /\ \A d \in Channel : preview.ch[d] =
              IF d = "PREVIEW" /\ Starts(armed, "PREVIEW", bad) THEN "active" ELSE armed.ch[d]
        /\ preview.pp = armed.pp
    BY <1>1, <2>4, StartChannel
  <2> HIDE DEF preview
  <2>6. /\ video \in HwType
        /\ \A d \in Channel : video.ch[d] =
              IF d = "VIDEO" /\ Starts(preview, "VIDEO", bad) THEN "active" ELSE preview.ch[d]
        /\ video.pp = preview.pp
    BY <1>1, <2>5, StartChannel
  <2> HIDE DEF video
  <2>7. Starts(preview, "VIDEO", bad) <=> Starts(armed, "VIDEO", bad)
    BY <1>1, <2>5 DEF Starts
  <2>8. zslMode => ~Starts(armed, "PREVIEW", bad)
    BY <2>4 DEF Starts
  <2>9. startRecording(hw, f, bad) \in {armed, preview, video}
    BY <1>3 DEF startRecording, armed, preview, video
  <2>10. \/ StartRecordingOk(hw, f, bad)
         \/ startRecording(hw, f, bad) \in {armed, preview}
         \/ startRecording(hw, f, bad) = video /\ ~Starts(armed, "VIDEO", bad)
    BY <1>3 DEF startRecording, StartRecordingOk, armed, preview, video
  <2> QED
    BY <1>1, <2>4, <2>5, <2>6, <2>7, <2>8, <2>9, <2>10
<1> QED
  BY <1>2, <1>3

\* takePicture() stops the preview before it adds a capture channel, which stays
\* only if the picture is taken; in ZSL mode it touches no channel.
LEMMA TakePicture ==
  ASSUME zslMode \in BOOLEAN, NEW hw \in HwType, NEW f, NEW bad,
         ~zslMode => f \in {NoFault, "CAPTURE"}
  PROVE  /\ takePicture(hw, f, bad) \in HwType
         /\ zslMode => takePicture(hw, f, bad).ch = hw.ch
         /\ ~zslMode => takePicture(hw, f, bad).ch["PREVIEW"] = "null"
         /\ ~zslMode /\ ~TakePictureOk(hw, f, bad) =>
               takePicture(hw, f, bad).ch["CAPTURE"] = "null"
         /\ takePicture(hw, f, bad).ch["VIDEO"] = hw.ch["VIDEO"]
         /\ TakePictureOk(hw, f, bad) => takePicture(hw, f, bad).pp = TRUE
<1> DEFINE down    == stopAndDel(hw, "PREVIEW")
           capture == addChannel(down, "CAPTURE", f)
           added   == [capture EXCEPT !.pp = TRUE]
           deleted == delChannels(added, {"CAPTURE"})
           started == startChannel(added, "CAPTURE", bad)
<1>1. /\ "PREVIEW" \in Channel /\ "VIDEO" \in Channel /\ "CAPTURE" \in Channel
      /\ NoFault # "CAPTURE"
  BY DEF Channel, NoFault
<1>2. CASE zslMode
  <2>1. takePicture(hw, f, bad) = [hw EXCEPT !.pp = TakePictureOk(hw, f, bad)]
    BY <1>2 DEF takePicture
  <2>2. TakePictureOk(hw, f, bad) \in BOOLEAN
    BY <1>2 DEF TakePictureOk
  <2> QED
    BY <1>2, <2>1, <2>2 DEF HwType
<1>3. CASE ~zslMode
  <2>1. /\ down \in HwType
        /\ down.ch["PREVIEW"] = "null"
        /\ down.ch["VIDEO"] = hw.ch["VIDEO"]
    BY <1>1, StopAndDel
  <2> HIDE DEF down
  <2>2. /\ capture \in HwType
        /\ capture.ch["CAPTURE"] = IF f = "CAPTURE" THEN "null" ELSE "stopped"
        /\ \A d \in Channel \ {"CAPTURE"} : capture.ch[d] = down.ch[d]
    BY <1>1, <2>1, AddChannel
  <2> HIDE DEF capture
  <2>3. added \in HwType /\ added.ch = capture.ch /\ added.pp = TRUE
    BY <2>2 DEF HwType
  <2> DEFINE gone == [deleted EXCEPT !.pp = FALSE]
  <2>4. takePicture(hw, f, bad) =
          CASE f # NoFault -> added
            [] f = NoFault /\ "CAPTURE" \in bad    -> gone
            [] f = NoFault /\ "CAPTURE" \notin bad -> started
    BY <1>3 DEF takePicture, added, capture, down
  <2> HIDE DEF added
  <2>5. /\ deleted \in HwType
        /\ deleted.ch["CAPTURE"] = "null"
        /\ \A d \in Channel \ {"CAPTURE"} : deleted.ch[d] = added.ch[d]
    BY <1>1, <2>3, DelChannels
  <2>6. /\ started \in HwType
        /\ \A d \in Channel : started.ch[d] =
              IF d = "CAPTURE" /\ Starts(added, "CAPTURE", bad) THEN "active" ELSE added.ch[d]
        /\ started.pp = added.pp
    BY <1>1, <2>3, StartChannel
  <2>11. /\ gone \in HwType
         /\ gone.ch = deleted.ch
    BY <2>5 DEF HwType
  <2> HIDE DEF deleted, started, gone
  <2>7. TakePictureOk(hw, f, bad) <=> f = NoFault /\ "CAPTURE" \notin bad
    BY <1>3 DEF TakePictureOk
  <2>8. CASE f # NoFault
    <3>1. takePicture(hw, f, bad) = added /\ f = "CAPTURE" /\ ~TakePictureOk(hw, f, bad)
      BY <1>3, <2>4, <2>7, <2>8
    <3> QED
      BY <1>1, <1>3, <2>1, <2>2, <2>3, <3>1
  <2>9. CASE f = NoFault /\ "CAPTURE" \in bad
    <3>1. takePicture(hw, f, bad) = gone /\ ~TakePictureOk(hw, f, bad)
      BY <2>4, <2>7, <2>9
    <3> QED
      BY <1>1, <1>3, <2>1, <2>2, <2>3, <2>5, <2>11, <3>1
  <2>10. CASE f = NoFault /\ "CAPTURE" \notin bad
    <3>1. takePicture(hw, f, bad) = started /\ TakePictureOk(hw, f, bad)
      BY <2>4, <2>7, <2>10
    <3> QED
      BY <1>1, <1>3, <2>1, <2>2, <2>3, <2>6, <3>1
  <2> QED
    BY <2>8, <2>9, <2>10
<1> QED
  BY <1>2, <1>3

\* Cancelling a picture leaves no capture channel outside ZSL mode.
LEMMA CancelPicture ==
  ASSUME zslMode \in BOOLEAN, NEW hw \in HwType
  PROVE  /\ cancelPicture(hw) \in HwType
         /\ ~zslMode => cancelPicture(hw).ch["CAPTURE"] = "null"
         /\ \A c \in Channel : cancelPicture(hw).ch[c] \in {"null", hw.ch[c]}
<1> DEFINE c == IF zslMode THEN "ZSL" ELSE "CAPTURE"
<1>1. c \in Channel
  BY DEF Channel
<1>2. /\ stopAndDel(hw, c) \in HwType
      /\ stopAndDel(hw, c).ch[c] = "null"
      /\ \A d \in Channel \ {c} : stopAndDel(hw, c).ch[d] = hw.ch[d]
  BY <1>1, StopAndDel
<1>3. cancelPicture(hw) = [stopAndDel(hw, c) EXCEPT !.pp = FALSE]
  BY DEF cancelPicture
<1> QED
  BY <1>1, <1>2, <1>3, ZenonT(30) DEF HwType

\* Live snapshots touch no channel but SNAPSHOT.
LEMMA LiveSnapshot ==
  ASSUME NEW hw \in HwType, NEW bad
  PROVE  /\ takeLiveSnapshot(hw, bad) \in HwType
         /\ \A c \in Channel \ {"SNAPSHOT"} : takeLiveSnapshot(hw, bad).ch[c] = hw.ch[c]
         /\ Starts(hw, "SNAPSHOT", bad) => takeLiveSnapshot(hw, bad).pp = TRUE
         /\ cancelLiveSnapshot(hw) \in HwType
         /\ \A c \in Channel \ {"SNAPSHOT"} : cancelLiveSnapshot(hw).ch[c] = hw.ch[c]
<1>1. "SNAPSHOT" \in Channel
  BY DEF Channel
<1>2. Starts(hw, "SNAPSHOT", bad) \in BOOLEAN
  BY DEF Starts
<1>3. /\ startChannel(hw, "SNAPSHOT", bad) \in HwType
      /\ \A c \in Channel \ {"SNAPSHOT"} : startChannel(hw, "SNAPSHOT", bad).ch[c] = hw.ch[c]
  BY <1>1, StartChannel
<1>4. /\ stopChannel(hw, "SNAPSHOT") \in HwType
      /\ \A c \in Channel \ {"SNAPSHOT"} : stopChannel(hw, "SNAPSHOT").ch[c] = hw.ch[c]
  BY <1>1, StopChannel
<1>5. takeLiveSnapshot(hw, bad) =
        [startChannel(hw, "SNAPSHOT", bad) EXCEPT !.pp = Starts(hw, "SNAPSHOT", bad)]
  BY DEF takeLiveSnapshot
<1>6. cancelLiveSnapshot(hw) = [stopChannel(hw, "SNAPSHOT") EXCEPT !.pp = FALSE]
  BY DEF cancelLiveSnapshot
<1> QED
  BY <1>2, <1>3, <1>4, <1>5, <1>6 DEF HwType

\* release() leaves no channel at all.
LEMMA Release ==
  ASSUME NEW hw \in HwType
  PROVE  /\ release(hw) \in HwType
         /\ \A c \in Channel : release(hw).ch[c] = "null"
BY DEF release, HwType, ChannelState

-----------------------------------------------------------------------------
(* The inductive invariant.  That preview and capture exclude each other is  *)
(* not inductive: it takes the states each of the two may stream in, and that*)
(* ZSL mode uses neither channel.                                            *)

PreviewStreamsIn == m_channels["PREVIEW"] = "active" => m_state \in PreviewStates /\ ~zslMode
CaptureExistsIn  == m_channels["CAPTURE"] # "null" => m_state = "PIC_TAKING" /\ ~zslMode

IInv == /\ TypeOK
        /\ PreviewStreamsIn
        /\ CaptureExistsIn
        /\ VideoOnlyWhileRecording
        /\ PictureHasPostprocessor

\* The same three invariants, of a hardware record and a state.
Streams(hw, state) ==
    /\ hw.ch["PREVIEW"] = "active" => state \in PreviewStates /\ ~zslMode
    /\ hw.ch["CAPTURE"] # "null" => state = "PIC_TAKING" /\ ~zslMode
    /\ hw.ch["VIDEO"] = "active" => state \in {"RECORDING", "VIDEO_PIC_TAKING"}

\* The type of apiResult.
AnswerType == [query : Queries \cup {"NONE"}, status : Status, enabled : BOOLEAN]

\* In a state of the invariant the hardware record has its type.
LEMMA HwTyped == TypeOK => Hw \in HwType
BY DEF TypeOK, Hw, HwType

\* A step that leaves the hardware as hw and the machine in state re-establishes
\* the invariant, whatever it answers.
LEMMA HwStep ==
  ASSUME IInv, NEW hw \in HwType, NEW state \in State,
         HwBecomes(hw), m_state' = state, UNCHANGED mParameters,
         mPreviewWindow' \in BOOLEAN,
         pictures' \in Nat, shooting' \in Seq(Nat), evt_queue' \in Seq(Nat),
         apiResult' \in AnswerType,
         Streams(hw, state),
         state \in PicStates => hw.pp = TRUE
  PROVE  IInv'
<1>1. TypeOK'
  BY DEF IInv, TypeOK, HwBecomes, HwType, mParameters, AnswerType
<1>2. PreviewStreamsIn' /\ CaptureExistsIn' /\ VideoOnlyWhileRecording'
  BY DEF Streams, HwBecomes, mParameters, PreviewStreamsIn, CaptureExistsIn,
         VideoOnlyWhileRecording, PreviewStates
<1>3. PictureHasPostprocessor'
  BY DEF HwBecomes, PictureHasPostprocessor, PicStates
<1> QED
  BY <1>1, <1>2, <1>3 DEF IInv

\* An answer has its type.
LEMMA ReplyType ==
  ASSUME NEW a, NEW s \in Status, Reply(a, s)
  PROVE  apiResult' \in AnswerType
<1>1. apiResult' = [query |-> "NONE", status |-> s, enabled |-> FALSE]
  BY DEF Reply
<1> QED
  BY <1>1 DEF AnswerType

\* An answer to a query has its type.
LEMMA ReplyFlagType ==
  ASSUME NEW q \in Queries, NEW flag \in BOOLEAN, ReplyFlag(q, flag)
  PROVE  apiResult' \in AnswerType
<1>1. apiResult' = [query |-> q, status |-> "OK", enabled |-> flag]
  BY DEF ReplyFlag
<1> QED
  BY <1>1 DEF AnswerType, Status

\* A step that answers and changes nothing else keeps the invariant.
LEMMA UntouchedStep ==
  ASSUME IInv, Untouched,
         apiResult' \in AnswerType
  PROVE  IInv'
<1>1. /\ UNCHANGED <<m_state, zslMode, hintStored, quiet, mPreviewWindow, recordingHint>>
      /\ UNCHANGED <<m_channels, orphans, m_pHistBuf, postproc>>
      /\ UNCHANGED <<pictures, shooting, evt_queue>>
  BY DEF Untouched, hwVars, picVars, mParameters
<1>2. TypeOK'
  BY <1>1 DEF IInv, TypeOK, AnswerType
<1>3. PreviewStreamsIn' /\ CaptureExistsIn' /\ VideoOnlyWhileRecording'
  BY <1>1 DEF IInv, PreviewStreamsIn, CaptureExistsIn, VideoOnlyWhileRecording, PreviewStates
<1>4. PictureHasPostprocessor'
  BY <1>1 DEF IInv, PictureHasPostprocessor, PicStates
<1> QED
  BY <1>2, <1>3, <1>4 DEF IInv

\* The answers that change nothing.
LEMMA Answers ==
  ASSUME IInv
  PROVE  /\ \A apis : Refuse(apis) \/ NoOp(apis) => IInv'
         /\ \A p, r \in BOOLEAN : Query(p, r) => IInv'
         /\ SetParamsInPlace => IInv'
         /\ SetParamsNoRestart => IInv'
         /\ PlainApis => IInv'
         /\ ReleaseFrame => IInv'
         /\ FocusApis => IInv'
<1>1. {"OK", "FAILED", "INVALID_OPERATION", "BAD_VALUE"} = Status
  BY DEF Status
<1>2. \A apis : Refuse(apis) \/ NoOp(apis) => IInv'
  BY <1>1, ReplyType, UntouchedStep DEF Refuse, NoOp
<1>3. \A p, r \in BOOLEAN : Query(p, r) => IInv'
  BY ReplyFlagType, UntouchedStep DEF Query, Queries
<1>4. SetParamsInPlace => IInv'
  BY <1>1, ReplyType, UntouchedStep DEF SetParamsInPlace, ParamStatus
<1>5. SetParamsNoRestart => IInv'
  BY <1>1, <1>4, ReplyType, UntouchedStep DEF SetParamsNoRestart
<1>6. PlainApis => IInv'
  BY <1>2 DEF PlainApis
<1>7. ReleaseFrame => IInv'
  BY <1>1, ReplyType, UntouchedStep DEF ReleaseFrame
<1>8. FocusApis => IInv'
  BY <1>1, ReplyType, UntouchedStep DEF FocusApis
<1> QED
  BY <1>2, <1>3, <1>4, <1>5, <1>6, <1>7, <1>8

-----------------------------------------------------------------------------
(* The actions keep the invariant                                            *)

\* What an API handler that takes no picture leaves alone keeps its type.
LEMMA Kept ==
  ASSUME TypeOK, UNCHANGED <<mPreviewWindow, picVars, evt_queue>>
  PROVE  /\ mPreviewWindow' \in BOOLEAN
         /\ pictures' \in Nat /\ shooting' \in Seq(Nat) /\ evt_queue' \in Seq(Nat)
<1>1. UNCHANGED <<mPreviewWindow, pictures, shooting, evt_queue>>
  BY DEF picVars
<1> QED
  BY <1>1 DEF TypeOK

\* The states and statuses the handlers name.
LEMMA Names ==
  /\ State = {"PREVIEW_STOPPED", "PREVIEW_READY", "PREVIEWING", "PIC_TAKING",
              "RECORDING", "VIDEO_PIC_TAKING", "PREVIEW_PIC_TAKING"}
  /\ PicStates = {"PIC_TAKING", "VIDEO_PIC_TAKING", "PREVIEW_PIC_TAKING"}
  /\ PreviewStates = {"PREVIEWING", "RECORDING", "VIDEO_PIC_TAKING", "PREVIEW_PIC_TAKING"}
  /\ {"PREVIEW", "CAPTURE", "VIDEO"} \subseteq Channel
  /\ \A ok : StateOf(ok) \in Status
  /\ "OK" \in Status
BY DEF State, PicStates, PreviewStates, Channel, StateOf, Status

\* In a state of the invariant, who streams and when, in terms of Hw.
LEMMA HwStreams ==
  ASSUME IInv
  PROVE  /\ Hw \in HwType
         /\ zslMode \in BOOLEAN /\ hintStored \in BOOLEAN
         /\ Streams(Hw, m_state)
         /\ Hw.pp = postproc /\ Hw.ch = m_channels
         /\ m_state \in PicStates => postproc = TRUE
<1>1. TypeOK
  BY DEF IInv
<1>2. Hw.pp = postproc /\ Hw.ch = m_channels
  BY DEF Hw
<1>3. Streams(Hw, m_state)
  BY <1>2 DEF IInv, Streams, PreviewStreamsIn, CaptureExistsIn, VideoOnlyWhileRecording
<1>4. m_state \in PicStates => postproc = TRUE
  BY <1>1 DEF IInv, PictureHasPostprocessor, TypeOK
<1> QED
  BY <1>1, <1>2, <1>3, <1>4, HwTyped DEF TypeOK

\* PREVIEW_STOPPED: a window is only remembered, whatever it is.
LEMMA StoppedKeepsHw ==
  ASSUME IInv, StoppedSetPreviewWindow \/ StoppedStartPreviewNoWindow
  PROVE  IInv'
<1>1. /\ m_state = "PREVIEW_STOPPED"
      /\ m_state' \in {"PREVIEW_STOPPED", "PREVIEW_READY"}
      /\ mPreviewWindow' \in BOOLEAN
      /\ UNCHANGED <<mParameters, hwVars, picVars, evt_queue>>
      /\ \E api \in Api : Reply(api, "OK")
  <2>1. TypeOK
    BY DEF IInv
  <2> QED
    BY <2>1 DEF StoppedSetPreviewWindow, StoppedStartPreviewNoWindow, In, Goto, Reply, TypeOK
<1>2. apiResult' \in AnswerType
  BY <1>1, Names, ReplyType
<1>3. /\ UNCHANGED <<zslMode, hintStored, quiet, recordingHint, m_channels, orphans>>
      /\ UNCHANGED <<m_pHistBuf, postproc, pictures, shooting, evt_queue>>
  BY <1>1 DEF mParameters, hwVars, picVars
<1>4. TypeOK'
  BY <1>1, <1>2, <1>3 DEF IInv, TypeOK, AnswerType, State
<1>5. PreviewStreamsIn' /\ CaptureExistsIn' /\ VideoOnlyWhileRecording'
  BY <1>1, <1>3, Names
  DEF IInv, PreviewStreamsIn, CaptureExistsIn, VideoOnlyWhileRecording
<1>6. PictureHasPostprocessor'
  BY <1>1, Names DEF PictureHasPostprocessor
<1> QED
  BY <1>4, <1>5, <1>6 DEF IInv

\* PREVIEW_STOPPED: a preview that fails to start is unprepared again.
LEMMA StoppedStart == ASSUME IInv, StoppedStartPreview PROVE IInv'
<1>1. PICK api \in {"START_NODISPLAY_PREVIEW", "START_PREVIEW"},
           f \in AddFault(PreviewChannels(recordingHint)),
           bad \in StartFaults(PreviewParts) :
        LET ready == preparePreview(Hw, f)
            ok    == f = NoFault /\ StartPreviewOk(ready, bad)
            after == IF f = NoFault THEN startPreview(ready, bad) ELSE ready
        IN  /\ HwBecomes(IF f = NoFault /\ ~ok THEN unpreparePreview(after) ELSE after)
            /\ m_state' = IF ok THEN "PREVIEWING" ELSE "PREVIEW_STOPPED"
            /\ Reply(api, StateOf(ok))
  BY DEF StoppedStartPreview, Goto
<1> DEFINE ready == preparePreview(Hw, f)
           ok    == f = NoFault /\ StartPreviewOk(ready, bad)
           after == startPreview(ready, bad)
           hw    == IF f = NoFault
                    THEN IF ok THEN after ELSE unpreparePreview(after)
                    ELSE ready
           state == IF ok THEN "PREVIEWING" ELSE "PREVIEW_STOPPED"
<1>2. /\ HwBecomes(hw)
      /\ m_state' = state
      /\ Reply(api, StateOf(ok))
  BY <1>1
<1>3. /\ m_state = "PREVIEW_STOPPED"
      /\ UNCHANGED mParameters
      /\ UNCHANGED <<mPreviewWindow, picVars, evt_queue>>
  BY DEF StoppedStartPreview, In
<1>4. /\ Hw \in HwType
      /\ zslMode \in BOOLEAN
      /\ Hw.ch["PREVIEW"] # "active"
      /\ Hw.ch["CAPTURE"] = "null"
      /\ Hw.ch["VIDEO"] # "active"
  BY <1>3, HwStreams, Names DEF Streams
<1>5. /\ ready \in HwType
      /\ ready.ch["PREVIEW"] # "active"
      /\ ready.ch["CAPTURE"] = "null"
      /\ ready.ch["VIDEO"] # "active"
  BY <1>4, PreparePreview, Names
<1> HIDE DEF ready
<1>6. /\ after \in HwType
      /\ zslMode => after.ch["PREVIEW"] # "active"
      /\ after.ch["CAPTURE"] = "null"
      /\ after.ch["VIDEO"] # "active"
  <2>1. MainChannel \in {"PREVIEW", "ZSL"} /\ (zslMode <=> MainChannel = "ZSL")
    BY <1>4, MainChannelType
  <2> QED
    BY <1>4, <1>5, <2>1, StartPreview, Names
<1> HIDE DEF after
<1>7. /\ unpreparePreview(after) \in HwType
      /\ unpreparePreview(after).ch["PREVIEW"] # "active"
      /\ unpreparePreview(after).ch["CAPTURE"] = "null"
      /\ unpreparePreview(after).ch["VIDEO"] # "active"
  BY <1>4, <1>6, UnpreparePreview, Names
<1>8. hw \in HwType /\ Streams(hw, state)
  BY <1>4, <1>5, <1>6, <1>7, Names DEF Streams
<1>9. state \in State /\ state \notin PicStates
  BY Names
<1>10. apiResult' \in AnswerType
  BY <1>2, Names, ReplyType
<1> HIDE DEF hw, state, ok
<1> QED
  BY <1>2, <1>3, <1>8, <1>9, <1>10, Kept, HwStep DEF IInv

\* PREVIEW_STOPPED: release() deletes whatever there is.
LEMMA StoppedRel == ASSUME IInv, StoppedRelease PROVE IInv'
<1>1. /\ HwBecomes(release(Hw))
      /\ m_state = "PREVIEW_STOPPED" /\ m_state' = m_state
      /\ Reply("RELEASE", "OK")
      /\ UNCHANGED mParameters
      /\ UNCHANGED <<mPreviewWindow, picVars, evt_queue>>
  BY DEF StoppedRelease, In
<1>2. release(Hw) \in HwType /\ Streams(release(Hw), "PREVIEW_STOPPED")
  BY HwStreams, Release, Names DEF Streams
<1>3. "PREVIEW_STOPPED" \in State /\ "PREVIEW_STOPPED" \notin PicStates
  BY Names
<1>4. apiResult' \in AnswerType
  BY <1>1, Names, ReplyType
<1> QED
  BY <1>1, <1>2, <1>3, <1>4, Kept, HwStep DEF IInv

\* PREVIEW_READY: the preview is started without its channels prepared; a
\* failing one is unprepared.
LEMMA ReadyWindow == ASSUME IInv, ReadySetPreviewWindow PROVE IInv'
<1>1. /\ m_state = "PREVIEW_READY"
      /\ mPreviewWindow' \in BOOLEAN
      /\ UNCHANGED mParameters
      /\ UNCHANGED <<picVars, evt_queue>>
  BY DEF ReadySetPreviewWindow, In
<1>2. /\ pictures' \in Nat /\ shooting' \in Seq(Nat) /\ evt_queue' \in Seq(Nat)
  BY <1>1 DEF IInv, TypeOK, picVars
<1>3. /\ Hw \in HwType
      /\ zslMode \in BOOLEAN
      /\ Hw.ch["PREVIEW"] # "active"
      /\ Hw.ch["CAPTURE"] = "null"
      /\ Hw.ch["VIDEO"] # "active"
      /\ Streams(Hw, "PREVIEW_READY")
  BY <1>1, HwStreams, Names DEF Streams
<1>4. CASE mPreviewWindow'
  <2>1. PICK bad \in StartFaults(PreviewParts) :
          LET ok    == StartPreviewOk(Hw, bad)
              after == startPreview(Hw, bad)
          IN  /\ HwBecomes(IF ok THEN after ELSE unpreparePreview(after))
              /\ m_state' = IF ok THEN "PREVIEWING" ELSE "PREVIEW_STOPPED"
              /\ Reply("SET_PREVIEW_WINDOW", StateOf(ok))
    BY <1>4 DEF ReadySetPreviewWindow, Goto
  <2> DEFINE ok    == StartPreviewOk(Hw, bad)
             after == startPreview(Hw, bad)
             hw    == IF ok THEN after ELSE unpreparePreview(after)
             state == IF ok THEN "PREVIEWING" ELSE "PREVIEW_STOPPED"
  <2>2. /\ HwBecomes(hw)
        /\ m_state' = state
        /\ Reply("SET_PREVIEW_WINDOW", StateOf(ok))
    BY <2>1
  <2>3. /\ after \in HwType
        /\ zslMode => after.ch["PREVIEW"] # "active"
        /\ after.ch["CAPTURE"] = "null"
        /\ after.ch["VIDEO"] # "active"
    <3>1. MainChannel \in {"PREVIEW", "ZSL"} /\ (zslMode <=> MainChannel = "ZSL")
      BY <1>3, MainChannelType
    <3> QED
      BY <1>3, <3>1, StartPreview, Names
  <2> HIDE DEF after
  <2>4. /\ unpreparePreview(after) \in HwType
        /\ unpreparePreview(after).ch["PREVIEW"] # "active"
        /\ unpreparePreview(after).ch["CAPTURE"] = "null"
        /\ unpreparePreview(after).ch["VIDEO"] # "active"
    BY <1>3, <2>3, UnpreparePreview, Names
  <2>5. hw \in HwType /\ Streams(hw, state)
    BY <1>3, <2>3, <2>4, Names DEF Streams
  <2>6. state \in State /\ state \notin PicStates
    BY Names
  <2>7. apiResult' \in AnswerType
    BY <2>2, Names, ReplyType
  <2> HIDE DEF hw, state, ok
  <2> QED
    BY <1>1, <1>2, <2>2, <2>5, <2>6, <2>7, HwStep
<1>5. CASE ~mPreviewWindow'
  <2>1. /\ Reply("SET_PREVIEW_WINDOW", "OK")
        /\ m_state' = "PREVIEW_READY"
        /\ HwBecomes(Hw)
    BY <1>1, <1>5 DEF ReadySetPreviewWindow, hwVars, HwBecomes, Hw
  <2>2. apiResult' \in AnswerType
    BY <2>1, Names, ReplyType
  <2>3. "PREVIEW_READY" \in State /\ "PREVIEW_READY" \notin PicStates
    BY Names
  <2> QED
    BY <1>1, <1>2, <1>3, <2>1, <2>2, <2>3, HwStep
<1> QED
  BY <1>4, <1>5

\* PREVIEW_READY, PREVIEWING: stopping the preview leaves nothing of it.
LEMMA StopPreviewStep ==
  ASSUME IInv, ReadyStopPreview \/ PreviewingStopPreview
  PROVE  IInv'
<1>1. /\ m_state \in {"PREVIEW_READY", "PREVIEWING"}
      /\ m_state' = "PREVIEW_STOPPED"
      /\ Reply("STOP_PREVIEW", "OK")
      /\ UNCHANGED mParameters
      /\ UNCHANGED <<mPreviewWindow, picVars, evt_queue>>
      /\ HwBecomes(unpreparePreview(Hw)) \/ HwBecomes(stopPreview(Hw))
  BY DEF ReadyStopPreview, PreviewingStopPreview, In, Goto
<1>2. /\ Hw \in HwType
      /\ zslMode \in BOOLEAN
      /\ Hw.ch["PREVIEW"] = "active" => ~zslMode
      /\ Hw.ch["CAPTURE"] = "null"
      /\ Hw.ch["VIDEO"] # "active"
  BY <1>1, HwStreams, Names DEF Streams
<1>3. unpreparePreview(Hw) \in HwType /\ Streams(unpreparePreview(Hw), "PREVIEW_STOPPED")
  BY <1>2, UnpreparePreview, Names DEF Streams
<1>4. stopPreview(Hw) \in HwType /\ Streams(stopPreview(Hw), "PREVIEW_STOPPED")
  BY <1>2, StopPreview, Names DEF Streams
<1>5. "PREVIEW_STOPPED" \in State /\ "PREVIEW_STOPPED" \notin PicStates
  BY Names
<1>6. apiResult' \in AnswerType
  BY <1>1, Names, ReplyType
<1> QED
  BY <1>1, <1>3, <1>4, <1>5, <1>6, Kept, HwStep DEF IInv

\* PREVIEWING, PREVIEW_PIC_TAKING: parameters that restart the preview.
LEMMA RestartStep ==
  ASSUME IInv, m_state \in {"PREVIEWING", "PREVIEW_PIC_TAKING"}, SetParamsRestart
  PROVE  IInv'
<1>1. PICK bad \in StartFaults(PreviewParts), s \in ParamStatus :
        /\ HwBecomes(startPreview(stopPreview(Hw), bad))
        /\ Reply("SET_PARAMS", s)
  BY DEF SetParamsRestart
<1>2. /\ m_state' = m_state
      /\ UNCHANGED mParameters
      /\ UNCHANGED <<mPreviewWindow, picVars, evt_queue>>
  BY DEF SetParamsRestart
<1> DEFINE down == stopPreview(Hw)
           hw   == startPreview(down, bad)
<1>3. /\ Hw \in HwType
      /\ zslMode \in BOOLEAN
      /\ Hw.ch["PREVIEW"] = "active" => ~zslMode
      /\ Hw.ch["CAPTURE"] = "null"
      /\ Hw.ch["VIDEO"] # "active"
      /\ m_state \in PicStates => Hw.pp = TRUE
  BY HwStreams, Names DEF Streams
<1>4. /\ down \in HwType
      /\ down.ch["PREVIEW"] # "active"
      /\ down.ch["CAPTURE"] = "null"
      /\ down.ch["VIDEO"] # "active"
      /\ down.pp = Hw.pp
  BY <1>3, StopPreview, Names
<1> HIDE DEF down
<1>5. MainChannel \in {"PREVIEW", "ZSL"} /\ (zslMode <=> MainChannel = "ZSL")
  BY <1>3, MainChannelType
<1>6. /\ hw \in HwType
      /\ hw.ch["PREVIEW"] = "active" => ~zslMode
      /\ hw.ch["CAPTURE"] = "null"
      /\ hw.ch["VIDEO"] # "active"
      /\ hw.pp = Hw.pp
  BY <1>3, <1>4, <1>5, StartPreview, Names
<1>7. HwBecomes(hw)
  BY <1>1 DEF down
<1> HIDE DEF hw
<1>8. Streams(hw, m_state)
  BY <1>6, Names DEF Streams
<1>9. m_state \in State
  BY Names
<1>10. apiResult' \in AnswerType
  BY <1>1, Names, ReplyType DEF ParamStatus, Status
<1> QED
  BY <1>2, <1>3, <1>6, <1>7, <1>8, <1>9, <1>10, Kept, HwStep DEF IInv

\* PREVIEWING: video frames flow only if the recording started.
LEMMA StartRecordingStep == ASSUME IInv, PreviewingStartRecording PROVE IInv'
<1>1. PICK f \in AddFault(PreviewChannels(hintStored)),
           bad \in StartFaults({"PREVIEW", "VIDEO"}) :
        LET ok == StartRecordingOk(Hw, f, bad)
        IN  /\ HwBecomes(startRecording(Hw, f, bad))
            /\ m_state' = IF ok THEN "RECORDING" ELSE "PREVIEWING"
            /\ Reply("START_RECORDING", StateOf(ok))
  BY DEF PreviewingStartRecording, Goto
<1> DEFINE ok    == StartRecordingOk(Hw, f, bad)
           hw    == startRecording(Hw, f, bad)
           state == IF ok THEN "RECORDING" ELSE "PREVIEWING"
<1>2. /\ m_state = "PREVIEWING"
      /\ UNCHANGED mParameters
      /\ UNCHANGED <<mPreviewWindow, picVars, evt_queue>>
  BY DEF PreviewingStartRecording, In
<1>3. /\ Hw \in HwType
      /\ zslMode \in BOOLEAN /\ hintStored \in BOOLEAN
      /\ Hw.ch["PREVIEW"] = "active" => ~zslMode
      /\ Hw.ch["CAPTURE"] = "null"
      /\ Hw.ch["VIDEO"] # "active"
  BY <1>2, HwStreams, Names DEF Streams
<1>4. /\ hw \in HwType
      /\ hw.ch["VIDEO"] = "active" => ok
      /\ hw.ch["PREVIEW"] = "active" => ~zslMode
      /\ hw.ch["CAPTURE"] = "null"
  BY <1>3, StartRecording
<1>5. HwBecomes(hw) /\ m_state' = state
  BY <1>1
<1>6. apiResult' \in AnswerType
  BY <1>1, Names, ReplyType
<1> HIDE DEF hw
<1>7. Streams(hw, state)
  BY <1>4, Names DEF Streams
<1>8. state \in State /\ state \notin PicStates
  BY Names
<1> HIDE DEF state, ok
<1> QED
  BY <1>2, <1>4, <1>5, <1>6, <1>7, <1>8, Kept, HwStep DEF IInv

\* The pictures keep their type when one is begun.
LEMMA PicturesType ==
  ASSUME TypeOK, NewPicture
  PROVE  pictures' \in Nat /\ shooting' \in Seq(Nat)
<1>1. pictures \in Nat /\ shooting \in Seq(Nat)
  BY DEF TypeOK
<1> QED
  BY <1>1 DEF NewPicture

\* PREVIEWING: a picture that cannot be taken leaves no capture channel behind.
LEMMA TakePictureStep == ASSUME IInv, PreviewingTakePicture PROVE IInv'
<1>1. PICK f \in {NoFault} \cup
                 (IF zslMode THEN MayFail \cap {"request"} ELSE AddFault({"CAPTURE"})),
           bad \in StartFaults({"CAPTURE"}) :
        LET ok == TakePictureOk(Hw, f, bad)
        IN  /\ HwBecomes(takePicture(Hw, f, bad))
            /\ m_state' = IF ok THEN "PIC_TAKING" ELSE "PREVIEW_STOPPED"
            /\ Reply("TAKE_PICTURE", StateOf(ok))
  BY DEF PreviewingTakePicture, Goto
<1> DEFINE ok    == TakePictureOk(Hw, f, bad)
           hw    == takePicture(Hw, f, bad)
           state == IF ok THEN "PIC_TAKING" ELSE "PREVIEW_STOPPED"
<1>2. /\ m_state = "PREVIEWING"
      /\ UNCHANGED <<mParameters, mPreviewWindow, evt_queue>>
      /\ NewPicture
  BY DEF PreviewingTakePicture, In
<1>3. /\ Hw \in HwType
      /\ zslMode \in BOOLEAN
      /\ Hw.ch["PREVIEW"] = "active" => ~zslMode
      /\ Hw.ch["CAPTURE"] = "null"
      /\ Hw.ch["VIDEO"] # "active"
  BY <1>2, HwStreams, Names DEF Streams
<1>4. ~zslMode => f \in {NoFault, "CAPTURE"}
  BY DEF AddFault
<1>5. /\ hw \in HwType
      /\ zslMode => hw.ch = Hw.ch
      /\ ~zslMode => hw.ch["PREVIEW"] = "null"
      /\ ~zslMode /\ ~ok => hw.ch["CAPTURE"] = "null"
      /\ hw.ch["VIDEO"] # "active"
      /\ ok => hw.pp = TRUE
  <2>1. /\ takePicture(Hw, f, bad) \in HwType
        /\ zslMode => takePicture(Hw, f, bad).ch = Hw.ch
        /\ ~zslMode => takePicture(Hw, f, bad).ch["PREVIEW"] = "null"
        /\ ~zslMode /\ ~TakePictureOk(Hw, f, bad) =>
              takePicture(Hw, f, bad).ch["CAPTURE"] = "null"
        /\ takePicture(Hw, f, bad).ch["VIDEO"] = Hw.ch["VIDEO"]
        /\ TakePictureOk(Hw, f, bad) => takePicture(Hw, f, bad).pp = TRUE
    BY <1>3, <1>4, TakePicture
  <2> QED
    BY <1>3, <2>1
<1>6. HwBecomes(hw) /\ m_state' = state
  BY <1>1
<1>7. apiResult' \in AnswerType
  BY <1>1, Names, ReplyType
<1> HIDE DEF hw, ok
<1>8. Streams(hw, state)
  BY <1>3, <1>5, Names DEF Streams
<1>9. state \in State /\ (state \in PicStates => hw.pp = TRUE)
  BY <1>5, Names
<1>10. /\ mPreviewWindow' \in BOOLEAN /\ evt_queue' \in Seq(Nat)
       /\ pictures' \in Nat /\ shooting' \in Seq(Nat)
  <2>1. TypeOK
    BY DEF IInv
  <2>2. pictures' \in Nat /\ shooting' \in Seq(Nat)
    BY <1>2, <2>1, PicturesType
  <2> QED
    BY <1>2, <2>1, <2>2 DEF TypeOK
<1> HIDE DEF state
<1> QED
  BY <1>2, <1>5, <1>6, <1>7, <1>8, <1>9, <1>10, HwStep

\* RECORDING: a live snapshot starts no stream but its own.
LEMMA LiveSnapshotStep == ASSUME IInv, RecordingTakePicture PROVE IInv'
<1>1. PICK bad \in StartFaults({"SNAPSHOT"}) :
        LET ok == Starts(Hw, "SNAPSHOT", bad)
        IN  /\ HwBecomes(takeLiveSnapshot(Hw, bad))
            /\ m_state' = IF ok THEN "VIDEO_PIC_TAKING" ELSE "RECORDING"
            /\ Reply("TAKE_PICTURE", StateOf(ok))
  BY DEF RecordingTakePicture, Goto
<1> DEFINE ok    == Starts(Hw, "SNAPSHOT", bad)
           hw    == takeLiveSnapshot(Hw, bad)
           state == IF ok THEN "VIDEO_PIC_TAKING" ELSE "RECORDING"
<1>2. /\ m_state = "RECORDING"
      /\ UNCHANGED <<mParameters, mPreviewWindow, evt_queue>>
      /\ NewPicture
  BY DEF RecordingTakePicture, In
<1>3. /\ Hw \in HwType
      /\ Hw.ch["PREVIEW"] = "active" => ~zslMode
      /\ Hw.ch["CAPTURE"] = "null"
  BY <1>2, HwStreams, Names DEF Streams
<1>4. /\ hw \in HwType
      /\ \A c \in Channel \ {"SNAPSHOT"} : hw.ch[c] = Hw.ch[c]
      /\ ok => hw.pp = TRUE
  BY <1>3, LiveSnapshot
<1>5. HwBecomes(hw) /\ m_state' = state
  BY <1>1
<1>6. apiResult' \in AnswerType
  BY <1>1, Names, ReplyType
<1> HIDE DEF hw, ok
<1>7. Streams(hw, state)
  BY <1>3, <1>4, Names DEF Streams
<1>8. state \in State /\ (state \in PicStates => hw.pp = TRUE)
  BY <1>4, Names
<1>9. /\ mPreviewWindow' \in BOOLEAN /\ evt_queue' \in Seq(Nat)
      /\ pictures' \in Nat /\ shooting' \in Seq(Nat)
  <2>1. TypeOK
    BY DEF IInv
  <2>2. pictures' \in Nat /\ shooting' \in Seq(Nat)
    BY <1>2, <2>1, PicturesType
  <2> QED
    BY <1>2, <2>1, <2>2 DEF TypeOK
<1> HIDE DEF state
<1> QED
  BY <1>2, <1>4, <1>5, <1>6, <1>7, <1>8, <1>9, HwStep

\* RECORDING and the picture states: stopRecording() stops the video channel,
\* and the postprocessor of a picture goes on.
LEMMA StopRecordingStep ==
  ASSUME IInv, \/ RecordingStopRecording \/ VideoPicTakingStopRecording
               \/ PreviewPicTakingStartRecording
  PROVE  IInv'
<1>1. /\ m_state \in {"RECORDING", "VIDEO_PIC_TAKING", "PREVIEW_PIC_TAKING"}
      /\ m_state' \in IF m_state = "RECORDING" THEN {"PREVIEWING"}
                      ELSE {"VIDEO_PIC_TAKING", "PREVIEW_PIC_TAKING"}
      /\ HwBecomes(stopRecording(Hw))
      /\ \E api, ok : Reply(api, StateOf(ok))
      /\ UNCHANGED mParameters
      /\ UNCHANGED <<mPreviewWindow, picVars, evt_queue>>
  BY DEF RecordingStopRecording, VideoPicTakingStopRecording,
         PreviewPicTakingStartRecording, In, Goto
<1>2. /\ Hw \in HwType
      /\ Hw.ch["PREVIEW"] = "active" => ~zslMode
      /\ Hw.ch["CAPTURE"] = "null"
      /\ m_state \in PicStates => Hw.pp = TRUE
  BY <1>1, HwStreams, Names DEF Streams
<1> DEFINE hw == stopRecording(Hw)
<1>3. /\ hw \in HwType
      /\ hw.ch["VIDEO"] # "active"
      /\ \A c \in Channel \ {"VIDEO"} : hw.ch[c] = Hw.ch[c]
      /\ hw.pp = Hw.pp
  BY <1>2, StopChannel, Names DEF stopRecording
<1>4. HwBecomes(hw)
  BY <1>1
<1> HIDE DEF hw
<1>5. Streams(hw, m_state')
  BY <1>1, <1>2, <1>3, Names DEF Streams
<1>6. m_state' \in State /\ (m_state' \in PicStates => hw.pp = TRUE)
  BY <1>1, <1>2, <1>3, Names
<1>7. apiResult' \in AnswerType
  BY <1>1, Names, ReplyType
<1> QED
  BY <1>1, <1>3, <1>4, <1>5, <1>6, <1>7, Kept, HwStep DEF IInv

\* A picture that ends leaves no capture channel.
LEMMA CancelPictureHw ==
  ASSUME IInv, m_state = "PIC_TAKING"
  PROVE  /\ cancelPicture(Hw) \in HwType
         /\ Streams(cancelPicture(Hw), "PREVIEW_STOPPED")
<1>1. /\ Hw \in HwType
      /\ zslMode \in BOOLEAN
      /\ Hw.ch["PREVIEW"] # "active"
      /\ Hw.ch["CAPTURE"] # "null" => ~zslMode
      /\ Hw.ch["VIDEO"] # "active"
  BY HwStreams, Names DEF Streams
<1>2. /\ cancelPicture(Hw) \in HwType
      /\ ~zslMode => cancelPicture(Hw).ch["CAPTURE"] = "null"
      /\ \A c \in Channel : cancelPicture(Hw).ch[c] \in {"null", Hw.ch[c]}
  BY <1>1, CancelPicture
<1> QED
  BY <1>1, <1>2, Names DEF Streams

\* The end of a live snapshot leaves the preview and the recording as they were.
LEMMA CancelLiveSnapshotHw ==
  ASSUME IInv, NEW state,
         \/ m_state = "VIDEO_PIC_TAKING" /\ state = "RECORDING"
         \/ m_state = "PREVIEW_PIC_TAKING" /\ state = "PREVIEWING"
  PROVE  /\ cancelLiveSnapshot(Hw) \in HwType
         /\ Streams(cancelLiveSnapshot(Hw), state)
<1>1. /\ Hw \in HwType
      /\ Streams(Hw, m_state)
  BY HwStreams
<1>2. /\ cancelLiveSnapshot(Hw) \in HwType
      /\ \A c \in Channel \ {"SNAPSHOT"} : cancelLiveSnapshot(Hw).ch[c] = Hw.ch[c]
  BY <1>1, LiveSnapshot
<1> QED
  BY <1>1, <1>2, Names DEF Streams

\* The picture states: a cancelled picture.
LEMMA CancelStep ==
  ASSUME IInv, \/ PicTakingCancelPicture \/ VideoPicTakingCancelPicture
               \/ PreviewPicTakingCancelPicture
  PROVE  IInv'
<1>1. /\ \E ok : Reply("CANCEL_PICTURE", StateOf(ok)) \/ Reply("CANCEL_PICTURE", "OK")
      /\ UNCHANGED mParameters
      /\ UNCHANGED <<mPreviewWindow, picVars, evt_queue>>
  BY DEF PicTakingCancelPicture, VideoPicTakingCancelPicture, PreviewPicTakingCancelPicture
<1>2. apiResult' \in AnswerType
  BY <1>1, Names, ReplyType
<1>3. CASE PicTakingCancelPicture
  <2>1. /\ m_state = "PIC_TAKING"
        /\ m_state' = "PREVIEW_STOPPED"
        /\ HwBecomes(cancelPicture(Hw))
    BY <1>3 DEF PicTakingCancelPicture, In, Goto
  <2>2. "PREVIEW_STOPPED" \in State /\ "PREVIEW_STOPPED" \notin PicStates
    BY Names
  <2> QED
    BY <1>1, <1>2, <2>1, <2>2, CancelPictureHw, Kept, HwStep DEF IInv
<1>4. CASE VideoPicTakingCancelPicture \/ PreviewPicTakingCancelPicture
  <2>1. /\ \/ m_state = "VIDEO_PIC_TAKING" /\ m_state' = "RECORDING"
           \/ m_state = "PREVIEW_PIC_TAKING" /\ m_state' = "PREVIEWING"
        /\ HwBecomes(cancelLiveSnapshot(Hw))
    BY <1>4 DEF VideoPicTakingCancelPicture, PreviewPicTakingCancelPicture, In, Goto
  <2>2. PICK state \in {"RECORDING", "PREVIEWING"} :
          /\ m_state' = state
          /\ \/ m_state = "VIDEO_PIC_TAKING" /\ state = "RECORDING"
             \/ m_state = "PREVIEW_PIC_TAKING" /\ state = "PREVIEWING"
    BY <2>1
  <2>3. state \in State /\ state \notin PicStates
    BY Names
  <2> QED
    BY <1>1, <1>2, <2>1, <2>2, <2>3, CancelLiveSnapshotHw, Kept, HwStep DEF IInv
<1> QED
  BY <1>3, <1>4

\* PREVIEW_PIC_TAKING: the preview ends, the picture goes on as a still.
LEMMA StopPreviewInPictureStep == ASSUME IInv, PreviewPicTakingStopPreview PROVE IInv'
<1> DEFINE down == stopAndDel(Hw, "PREVIEW")
           hw   == delChannels(down, {"VIDEO"})
<1>1. /\ m_state = "PREVIEW_PIC_TAKING"
      /\ m_state' = "PIC_TAKING"
      /\ HwBecomes(hw)
      /\ Reply("STOP_PREVIEW", "OK")
      /\ UNCHANGED mParameters
      /\ UNCHANGED <<mPreviewWindow, picVars, evt_queue>>
  BY DEF PreviewPicTakingStopPreview, In, Goto
<1>2. /\ Hw \in HwType
      /\ Hw.ch["CAPTURE"] = "null"
      /\ Hw.pp = TRUE
  BY <1>1, HwStreams, Names DEF Streams
<1>3. /\ down \in HwType
      /\ down.ch["PREVIEW"] = "null"
      /\ \A d \in Channel \ {"PREVIEW"} : down.ch[d] = Hw.ch[d]
      /\ down.pp = Hw.pp
  BY <1>2, StopAndDel, Names
<1> HIDE DEF down
<1>4. /\ hw \in HwType
      /\ \A c \in Channel : hw.ch[c] = IF c \in {"VIDEO"} THEN "null" ELSE down.ch[c]
      /\ hw.pp = down.pp
  BY <1>3, DelChannels, Names
<1> HIDE DEF hw
<1>5. Streams(hw, "PIC_TAKING")
  BY <1>2, <1>3, <1>4, Names DEF Streams
<1>6. "PIC_TAKING" \in State /\ hw.pp = TRUE
  BY <1>2, <1>3, <1>4, Names
<1>7. apiResult' \in AnswerType
  BY <1>1, Names, ReplyType
<1> QED
  BY <1>1, <1>4, <1>5, <1>6, <1>7, Kept, HwStep DEF IInv

\* The notify thread touches no channel.
LEMMA NotifyStep ==
  ASSUME IInv, PostSnapshotDone \/ DropStoppedPicture
  PROVE  IInv'
<1>1. TypeOK
  BY DEF IInv
<1>2. /\ m_state' = m_state
      /\ UNCHANGED <<mParameters, hwVars>>
      /\ UNCHANGED <<mPreviewWindow, pictures, apiResult>>
      /\ shooting # <<>> /\ shooting' = Tail(shooting)
      /\ evt_queue' \in {evt_queue, Append(evt_queue, Head(shooting))}
  BY DEF PostSnapshotDone, DropStoppedPicture
<1>3. /\ mPreviewWindow' \in BOOLEAN
      /\ pictures' \in Nat
      /\ shooting' \in Seq(Nat)
      /\ evt_queue' \in Seq(Nat)
      /\ apiResult' \in AnswerType
  <2>1. /\ shooting \in Seq(Nat) /\ evt_queue \in Seq(Nat)
        /\ mPreviewWindow \in BOOLEAN /\ pictures \in Nat /\ apiResult \in AnswerType
    BY <1>1 DEF TypeOK, AnswerType
  <2>2. Head(shooting) \in Nat /\ Tail(shooting) \in Seq(Nat)
    BY <1>2, <2>1
  <2>3. Append(evt_queue, Head(shooting)) \in Seq(Nat)
    BY <2>1, <2>2
  <2> QED
    BY <1>2, <2>1, <2>2, <2>3
<1>4. HwBecomes(Hw) /\ UNCHANGED mParameters
  BY <1>2 DEF HwBecomes, Hw, hwVars
<1>5. Hw \in HwType /\ Streams(Hw, m_state) /\ (m_state \in PicStates => Hw.pp = TRUE)
  BY HwStreams
<1>6. m_state \in State
  BY <1>1 DEF TypeOK
<1> QED
  BY <1>2, <1>3, <1>4, <1>5, <1>6, HwStep

\* The end of a picture, taken in whatever state the machine is by then.
LEMMA SnapshotDoneStep == ASSUME IInv, SnapshotDone PROVE IInv'
<1>1. TypeOK
  BY DEF IInv
<1>2. /\ UNCHANGED mParameters
      /\ UNCHANGED <<mPreviewWindow, picVars, apiResult>>
      /\ evt_queue # <<>> /\ evt_queue' = Tail(evt_queue)
  BY DEF SnapshotDone
<1>3. /\ mPreviewWindow' \in BOOLEAN
      /\ pictures' \in Nat
      /\ shooting' \in Seq(Nat)
      /\ evt_queue' \in Seq(Nat)
      /\ apiResult' \in AnswerType
  BY <1>1, <1>2 DEF TypeOK, AnswerType, picVars
<1>4. CASE m_state = "PIC_TAKING"
  <2>1. HwBecomes(cancelPicture(Hw)) /\ m_state' = "PREVIEW_STOPPED"
    BY <1>4, Names DEF SnapshotDone, In, Goto
  <2>2. "PREVIEW_STOPPED" \in State /\ "PREVIEW_STOPPED" \notin PicStates
    BY Names
  <2> QED
    BY <1>2, <1>3, <1>4, <2>1, <2>2, CancelPictureHw, HwStep
<1>5. CASE m_state \in {"VIDEO_PIC_TAKING", "PREVIEW_PIC_TAKING"}
  <2> DEFINE state == IF m_state = "VIDEO_PIC_TAKING" THEN "RECORDING" ELSE "PREVIEWING"
  <2>1. HwBecomes(cancelLiveSnapshot(Hw)) /\ m_state' = state
    <3>1. CASE m_state = "VIDEO_PIC_TAKING"
      BY <3>1, Names DEF SnapshotDone, In, Goto
    <3>2. CASE m_state = "PREVIEW_PIC_TAKING"
      BY <3>2, Names DEF SnapshotDone, In, Goto
    <3> QED
      BY <1>5, <3>1, <3>2
  <2>2. state \in State /\ state \notin PicStates
    BY Names
  <2>3. \/ m_state = "VIDEO_PIC_TAKING" /\ state = "RECORDING"
        \/ m_state = "PREVIEW_PIC_TAKING" /\ state = "PREVIEWING"
    BY <1>5
  <2> HIDE DEF state
  <2> QED
    BY <1>2, <1>3, <2>1, <2>2, <2>3, CancelLiveSnapshotHw, HwStep
<1>6. CASE m_state \notin {"PIC_TAKING", "VIDEO_PIC_TAKING", "PREVIEW_PIC_TAKING"}
  <2>1. UNCHANGED <<m_state, hwVars>>
    BY <1>6, Names DEF SnapshotDone, In
  <2>2. HwBecomes(Hw) /\ m_state' = m_state
    BY <2>1 DEF HwBecomes, Hw, hwVars
  <2>3. Hw \in HwType /\ Streams(Hw, m_state) /\ (m_state \in PicStates => Hw.pp = TRUE)
    BY HwStreams
  <2>4. m_state \in State
    BY <1>1 DEF TypeOK
  <2> QED
    BY <1>2, <1>3, <2>2, <2>3, <2>4, HwStep
<1> QED
  BY <1>4, <1>5, <1>6

-----------------------------------------------------------------------------
(* The theorems                                                              *)

\* Nothing exists, so nothing streams.
LEMMA InitInv == Init => IInv
<1> SUFFICES ASSUME Init PROVE IInv
  OBVIOUS
<1>1. m_channels = [c \in Channel |-> "null"] /\ m_state = "PREVIEW_STOPPED"
  BY DEF Init
<1>2. zslMode \in BOOLEAN /\ hintStored \in BOOLEAN /\ quiet \in BOOLEAN
  BY ConstantsAssumption DEF Init
<1>3. apiResult \in AnswerType
  BY DEF Init, AnswerType, Status
<1>4. TypeOK
  <2>1. /\ pictures = 0 /\ shooting = <<>> /\ evt_queue = <<>>
        /\ mPreviewWindow = FALSE /\ recordingHint = FALSE /\ orphans = {}
        /\ m_pHistBuf = FALSE /\ postproc = FALSE
    BY DEF Init
  <2>2. m_state \in State /\ m_channels \in [Channel -> ChannelState]
    BY <1>1 DEF State, ChannelState
  <2>3. pictures \in Nat /\ shooting \in Seq(Nat) /\ evt_queue \in Seq(Nat)
    BY <2>1
  <2> QED
    BY <1>2, <1>3, <2>1, <2>2, <2>3 DEF TypeOK, AnswerType
<1>5. PreviewStreamsIn /\ CaptureExistsIn /\ VideoOnlyWhileRecording
  BY <1>1, Names DEF PreviewStreamsIn, CaptureExistsIn, VideoOnlyWhileRecording
<1>6. PictureHasPostprocessor
  BY <1>1, Names DEF PictureHasPostprocessor
<1> QED
  BY <1>4, <1>5, <1>6 DEF IInv

\* Every event the machine can take, in any state, keeps the invariant.
LEMMA StepInv == IInv /\ [Next]_vars => IInv'
<1> SUFFICES ASSUME IInv, [Next]_vars PROVE IInv'
  OBVIOUS
<1>1. CASE StoppedState
  <2>1. StoppedOther => IInv'
    BY Answers DEF StoppedOther
  <2> QED
    BY <1>1, <2>1, StoppedKeepsHw, StoppedStart, StoppedRel DEF StoppedState
<1>2. CASE ReadyState
  <2>1. ReadyOther => IInv'
    BY Answers DEF ReadyOther
  <2> QED
    BY <1>2, <2>1, ReadyWindow, StopPreviewStep DEF ReadyState
<1>3. CASE PreviewingState
  <2>1. PreviewingOther => IInv'
    BY Answers DEF PreviewingOther
  <2>2. PreviewingSetParams => IInv'
    BY RestartStep DEF PreviewingSetParams, In
  <2> QED
    BY <1>3, <2>1, <2>2, StopPreviewStep, StartRecordingStep, TakePictureStep
    DEF PreviewingState
<1>4. CASE PicTakingState
  <2>1. PicTakingOther => IInv'
    BY Answers DEF PicTakingOther
  <2> QED
    BY <1>4, <2>1, CancelStep DEF PicTakingState
<1>5. CASE RecordingState
  <2>1. RecordingOther => IInv'
    BY Answers DEF RecordingOther
  <2> QED
    BY <1>5, <2>1, LiveSnapshotStep, StopRecordingStep DEF RecordingState
<1>6. CASE VideoPicTakingState
  <2>1. VideoPicTakingOther => IInv'
    BY Answers DEF VideoPicTakingOther
  <2> QED
    BY <1>6, <2>1, StopRecordingStep, CancelStep DEF VideoPicTakingState
<1>7. CASE PreviewPicTakingState
  <2>1. PreviewPicTakingOther => IInv'
    BY Answers DEF PreviewPicTakingOther
  <2>2. PreviewPicTakingSetParams => IInv'
    BY RestartStep DEF PreviewPicTakingSetParams, In
  <2> QED
    BY <1>7, <2>1, <2>2, CancelStep, StopPreviewInPictureStep, StopRecordingStep
    DEF PreviewPicTakingState
<1>8. CASE PlainApis
  BY <1>8, Answers
<1>9. CASE PostSnapshotDone \/ DropStoppedPicture
  BY <1>9, NotifyStep
<1>10. CASE SnapshotDone
  BY <1>10, SnapshotDoneStep
<1>11. CASE UNCHANGED vars
  <2>1. Untouched /\ apiResult' = apiResult
    BY <1>11 DEF vars, Untouched, mParameters, hwVars, picVars
  <2>2. apiResult \in AnswerType
    BY DEF IInv, TypeOK, AnswerType
  <2> QED
    BY <2>1, <2>2, UntouchedStep
<1> QED
  BY <1>1, <1>2, <1>3, <1>4, <1>5, <1>6, <1>7, <1>8, <1>9, <1>10, <1>11 DEF Next

\* In every behaviour the invariant holds.
THEOREM Invariance == Spec => []IInv
BY InitInv, StepInv, PTL DEF Spec

\* Every variable keeps its type, for every build, fault and number of pictures.
THEOREM TypeCorrect == Spec => []TypeOK
<1>1. IInv => TypeOK
  BY DEF IInv
<1> QED
  BY <1>1, Invariance, PTL

\* The preview and the capture stream never run together, whatever fails.
THEOREM PreviewCaptureExclusion == Spec => []PreviewAndCaptureExclusive
<1>1. IInv => PreviewAndCaptureExclusive
  BY Names DEF IInv, PreviewStreamsIn, CaptureExistsIn, PreviewAndCaptureExclusive
<1> QED
  BY <1>1, Invariance, PTL

\* Neither preview, stills nor video stream in a stopped machine, whatever failed.
THEOREM StoppedIsQuiet == Spec => []NothingStreamsWhenStopped
<1>1. IInv => NothingStreamsWhenStopped
  BY Names DEF IInv, PreviewStreamsIn, CaptureExistsIn, VideoOnlyWhileRecording,
               NothingStreamsWhenStopped
<1> QED
  BY <1>1, Invariance, PTL

\* Video frames flow in the two recording states only.
THEOREM VideoInRecording == Spec => []VideoOnlyWhileRecording
<1>1. IInv => VideoOnlyWhileRecording
  BY DEF IInv
<1> QED
  BY <1>1, Invariance, PTL

\* What streams agrees with the state: the three together.
THEOREM StreamsFit == Spec => []StreamsFitTheState
<1>1. StreamsFitTheState
        <=> PreviewAndCaptureExclusive /\ NothingStreamsWhenStopped /\ VideoOnlyWhileRecording
  BY DEF StreamsFitTheState
<1> QED
  BY <1>1, PreviewCaptureExclusion, StoppedIsQuiet, VideoInRecording, PTL

\* A picture state always has the postprocessor that can end it.
THEOREM PictureCanEnd == Spec => []PictureHasPostprocessor
<1>1. IInv => PictureHasPostprocessor
  BY DEF IInv
<1> QED
  BY <1>1, Invariance, PTL

-----------------------------------------------------------------------------
(* Quiet behaviours.  What no failing call disturbs is not inductive either: *)
(* a recording can only keep the preview if it is running when the recording *)
(* begins, and the live snapshot that the recording is stopped beside keeps  *)
(* it for the preview that comes after.                                      *)

QuietInv ==
    quiet => /\ postproc => m_state \in PicStates
             /\ ~zslMode /\ m_state \in PreviewStates => m_channels["PREVIEW"] = "active"

\* A quiet step that leaves the hardware as hw and the machine in state keeps
\* the invariant.
LEMMA QuietStep ==
  ASSUME NEW hw, NEW state, HwBecomes(hw), m_state' = state, UNCHANGED mParameters,
         quiet /\ hw.pp => state \in PicStates,
         quiet /\ ~zslMode /\ state \in PreviewStates => hw.ch["PREVIEW"] = "active"
  PROVE  QuietInv'
<1>1. postproc' = hw.pp /\ m_channels' = hw.ch /\ quiet' = quiet /\ zslMode' = zslMode
  BY DEF HwBecomes, mParameters
<1> QED
  BY <1>1 DEF QuietInv, PicStates, PreviewStates

\* In a quiet state the hardware has what the invariant says.
LEMMA QuietHw ==
  ASSUME IInv, QuietInv
  PROVE  /\ quiet /\ Hw.pp => m_state \in PicStates
         /\ quiet /\ ~zslMode /\ m_state \in PreviewStates => Hw.ch["PREVIEW"] = "active"
BY HwStreams DEF QuietInv

\* A step that leaves the machine and the hardware alone keeps the invariant.
LEMMA QuietKept ==
  ASSUME QuietInv, UNCHANGED <<m_state, mParameters, hwVars>>
  PROVE  QuietInv'
<1>1. UNCHANGED <<m_state, quiet, zslMode, m_channels, postproc>>
  BY DEF mParameters, hwVars
<1> QED
  BY <1>1 DEF QuietInv, PicStates, PreviewStates

\* In a quiet behaviour no call fails.
LEMMA QuietFaults ==
  ASSUME quiet = TRUE
  PROVE  /\ MayFail = {}
         /\ \A chs : AddFault(chs) = {NoFault}
         /\ \A chs : StartFaults(chs) = {{}}
         /\ ~SetParamsRestart
BY DEF MayFail, AddFault, StartFaults, SetParamsRestart, MayRestart

\* Preparing the preview without a failure leaves its channels stopped.
LEMMA Prepared ==
  ASSUME zslMode = FALSE, NEW hw \in HwType
  PROVE  preparePreview(hw, NoFault).ch["PREVIEW"] = "stopped"
<1> DEFINE wanted == PreviewChannels(hw.hint)
           tried  == {c \in wanted : NoFault = NoFault \/ AddOrder[c] <= AddOrder[NoFault]}
           clean  == delChannels(hw, tried)
<1>1. wanted \subseteq Channel /\ "PREVIEW" \in wanted /\ "PREVIEW" \in Channel
  BY PreviewChannelsType DEF HwType, Channel
<1>2. clean \in HwType
  <2>1. tried \in SUBSET Channel
    BY <1>1
  <2> HIDE DEF tried
  <2> QED
    BY <2>1, DelChannels
<1>3. preparePreview(hw, NoFault) =
        [clean EXCEPT !.ch = [c \in Channel |-> IF c \in wanted THEN "stopped"
                                                ELSE clean.ch[c]]]
  BY DEF preparePreview
<1> HIDE DEF clean, wanted
<1> QED
  BY <1>1, <1>2, <1>3 DEF HwType

\* A recording that meets no failing call keeps the preview, started or not.
LEMMA RecordingKeepsPreview ==
  ASSUME zslMode = FALSE, hintStored \in BOOLEAN, NEW hw \in HwType,
         hw.ch["PREVIEW"] = "active"
  PROVE  startRecording(hw, NoFault, {}).ch["PREVIEW"] = "active"
<1> DEFINE down    == stopAndDel(hw, "PREVIEW")
           noHint  == [down EXCEPT !.hint = hintStored]
           armed   == RearmForRecording(hw, NoFault)
           preview == startChannel(armed, "PREVIEW", {})
           video   == startChannel(preview, "VIDEO", {})
<1>1. "PREVIEW" \in Channel /\ "VIDEO" \in Channel
  BY DEF Channel
<1>2. CASE hw.hint
  <2>1. startRecording(hw, NoFault, {}) = startChannel(hw, "VIDEO", {})
    BY <1>2 DEF startRecording
  <2> QED
    BY <1>1, <2>1, StartChannel
<1>3. CASE ~hw.hint
  <2>1. down \in HwType
    BY <1>1, StopAndDel
  <2> HIDE DEF down
  <2>2. noHint \in HwType
    BY <2>1 DEF HwType
  <2> HIDE DEF noHint
  <2>3. armed = preparePreview(noHint, NoFault)
    BY DEF RearmForRecording, noHint, down
  <2>4. armed \in HwType /\ armed.ch["PREVIEW"] = "stopped"
    BY <2>2, <2>3, Prepared, PreparePreview
  <2> HIDE DEF armed
  <2>5. Starts(armed, "PREVIEW", {})
    BY <2>4 DEF Starts
  <2>6. preview \in HwType /\ preview.ch["PREVIEW"] = "active"
    BY <1>1, <2>4, <2>5, StartChannel
  <2> HIDE DEF preview
  <2>7. video.ch["PREVIEW"] = "active"
    BY <1>1, <2>6, StartChannel
  <2>8. startRecording(hw, NoFault, {}) = video
    BY <1>3, <2>5 DEF startRecording, armed, preview
  <2> QED
    BY <2>7, <2>8
<1> QED
  BY <1>2, <1>3

-----------------------------------------------------------------------------
(* The actions of a quiet behaviour                                          *)

\* PREVIEW_STOPPED, PREVIEW_READY: the preview is started, or not, and the
\* postprocessor is stopped and stays so.
LEMMA QuietStart ==
  ASSUME IInv, QuietInv, StoppedStartPreview \/ ReadySetPreviewWindow
  PROVE  QuietInv'
<1>1. /\ m_state \in {"PREVIEW_STOPPED", "PREVIEW_READY"}
      /\ UNCHANGED mParameters
  BY DEF StoppedStartPreview, ReadySetPreviewWindow, In
<1>2. /\ Hw \in HwType /\ zslMode \in BOOLEAN
      /\ quiet => ~Hw.pp
  BY <1>1, HwStreams, QuietHw, Names
<1>3. ~zslMode => MainChannel = "PREVIEW"
  BY DEF MainChannel
<1>4. \A hw \in HwType : \A bad :
        /\ startPreview(hw, bad) \in HwType
        /\ startPreview(hw, bad).pp = hw.pp
        /\ ~zslMode /\ StartPreviewOk(hw, bad) =>
              startPreview(hw, bad).ch["PREVIEW"] = "active"
        /\ unpreparePreview(hw) \in HwType
        /\ unpreparePreview(hw).pp = hw.pp
  BY <1>2, <1>3, StartPreview, UnpreparePreview
<1>5. PICK hw \in HwType, ok \in BOOLEAN, state \in {"PREVIEW_STOPPED", "PREVIEW_READY"} :
        /\ HwBecomes(hw)
        /\ hw.pp = Hw.pp
        /\ m_state' = IF ok THEN "PREVIEWING" ELSE state
        /\ ok /\ ~zslMode => hw.ch["PREVIEW"] = "active"
  <2>1. CASE StoppedStartPreview
    <3>1. PICK f \in AddFault(PreviewChannels(recordingHint)),
               bad \in StartFaults(PreviewParts) :
            LET ready == preparePreview(Hw, f)
                ok    == f = NoFault /\ StartPreviewOk(ready, bad)
                after == IF f = NoFault THEN startPreview(ready, bad) ELSE ready
            IN  /\ HwBecomes(IF f = NoFault /\ ~ok THEN unpreparePreview(after) ELSE after)
                /\ m_state' = IF ok THEN "PREVIEWING" ELSE "PREVIEW_STOPPED"
      BY <2>1 DEF StoppedStartPreview, Goto
    <3> DEFINE ready == preparePreview(Hw, f)
               on    == StartPreviewOk(ready, bad)
               ok    == f = NoFault /\ on
               after == startPreview(ready, bad)
               hw    == IF f = NoFault
                        THEN IF on THEN after ELSE unpreparePreview(after)
                        ELSE ready
    <3>2. ready \in HwType /\ ready.pp = Hw.pp
      BY <1>2, PreparePreview
    <3>3. HwBecomes(hw) /\ m_state' = IF ok THEN "PREVIEWING" ELSE "PREVIEW_STOPPED"
      BY <3>1
    <3>4. hw \in HwType /\ hw.pp = Hw.pp /\ (ok /\ ~zslMode => hw.ch["PREVIEW"] = "active")
      <4> HIDE DEF ready
      <4>1. after \in HwType /\ after.pp = Hw.pp
            /\ (on /\ ~zslMode => after.ch["PREVIEW"] = "active")
        BY <1>4, <3>2
      <4> HIDE DEF after, on
      <4> QED
        BY <1>4, <3>2, <4>1
    <3>5. ok \in BOOLEAN
      OBVIOUS
    <3> HIDE DEF hw, ok
    <3> QED
      BY <3>3, <3>4, <3>5
  <2>2. CASE ReadySetPreviewWindow /\ mPreviewWindow'
    <3>1. PICK bad \in StartFaults(PreviewParts) :
            LET ok    == StartPreviewOk(Hw, bad)
                after == startPreview(Hw, bad)
            IN  /\ HwBecomes(IF ok THEN after ELSE unpreparePreview(after))
                /\ m_state' = IF ok THEN "PREVIEWING" ELSE "PREVIEW_STOPPED"
      BY <2>2 DEF ReadySetPreviewWindow, Goto
    <3> DEFINE on    == StartPreviewOk(Hw, bad)
               ok    == on = TRUE
               after == startPreview(Hw, bad)
               hw    == IF on THEN after ELSE unpreparePreview(after)
    <3>2. HwBecomes(hw) /\ m_state' = IF ok THEN "PREVIEWING" ELSE "PREVIEW_STOPPED"
      BY <3>1 DEF StartPreviewOk
    <3>3. hw \in HwType /\ hw.pp = Hw.pp /\ (ok /\ ~zslMode => hw.ch["PREVIEW"] = "active")
      <4>1. after \in HwType /\ after.pp = Hw.pp
            /\ (on /\ ~zslMode => after.ch["PREVIEW"] = "active")
        BY <1>2, <1>4
      <4> HIDE DEF after, on
      <4> QED
        BY <1>4, <4>1
    <3>4. ok \in BOOLEAN
      OBVIOUS
    <3> HIDE DEF hw, ok
    <3> QED
      BY <3>2, <3>3, <3>4
  <2>3. CASE ReadySetPreviewWindow /\ ~mPreviewWindow'
    <3>1. UNCHANGED <<m_state, hwVars>> /\ m_state = "PREVIEW_READY"
      BY <2>3 DEF ReadySetPreviewWindow, In
    <3>2. HwBecomes(Hw)
      BY <3>1 DEF hwVars, HwBecomes, Hw
    <3>3. m_state' = IF FALSE THEN "PREVIEWING" ELSE "PREVIEW_READY"
      BY <3>1
    <3> QED
      BY <1>2, <3>2, <3>3
  <2> QED
    BY <2>1, <2>2, <2>3
<1> QED
  BY <1>1, <1>2, <1>5, QuietStep, Names

\* The preview ends, and with it what the invariant says of it.
LEMMA QuietStop ==
  ASSUME IInv, QuietInv, ReadyStopPreview \/ PreviewingStopPreview \/ StoppedRelease
  PROVE  QuietInv'
<1>1. /\ m_state \in {"PREVIEW_STOPPED", "PREVIEW_READY", "PREVIEWING"}
      /\ m_state' = "PREVIEW_STOPPED"
      /\ UNCHANGED mParameters
      /\ HwBecomes(unpreparePreview(Hw)) \/ HwBecomes(stopPreview(Hw))
           \/ HwBecomes(release(Hw))
  BY DEF ReadyStopPreview, PreviewingStopPreview, StoppedRelease, In, Goto
<1>2. /\ Hw \in HwType /\ zslMode \in BOOLEAN
      /\ quiet => ~Hw.pp
  BY <1>1, HwStreams, QuietHw, Names
<1>3. /\ unpreparePreview(Hw).pp = Hw.pp
      /\ stopPreview(Hw).pp = Hw.pp
  BY <1>2, UnpreparePreview, StopPreview
<1>4. release(Hw).pp = Hw.pp
  BY DEF release, Hw
<1> QED
  BY <1>1, <1>2, <1>3, <1>4, QuietStep, Names

\* A recording that is started, or not, keeps the preview.
LEMMA QuietRecording == ASSUME IInv, QuietInv, PreviewingStartRecording PROVE QuietInv'
<1>1. PICK f \in AddFault(PreviewChannels(hintStored)),
           bad \in StartFaults({"PREVIEW", "VIDEO"}) :
        /\ HwBecomes(startRecording(Hw, f, bad))
        /\ m_state' \in {"RECORDING", "PREVIEWING"}
  BY DEF PreviewingStartRecording, Goto
<1>2. m_state = "PREVIEWING" /\ UNCHANGED mParameters
  BY DEF PreviewingStartRecording, In
<1>3. /\ Hw \in HwType /\ zslMode \in BOOLEAN /\ hintStored \in BOOLEAN
      /\ quiet => ~Hw.pp
      /\ quiet /\ ~zslMode => Hw.ch["PREVIEW"] = "active"
  BY <1>2, HwStreams, QuietHw, Names
<1>4. startRecording(Hw, f, bad).pp = Hw.pp
  BY <1>3, StartRecording
<1>5. quiet /\ ~zslMode => startRecording(Hw, f, bad).ch["PREVIEW"] = "active"
  <2> SUFFICES ASSUME quiet, ~zslMode
               PROVE  startRecording(Hw, f, bad).ch["PREVIEW"] = "active"
    OBVIOUS
  <2>0. quiet = TRUE
    BY DEF IInv, TypeOK
  <2>1. f = NoFault /\ bad = {}
    BY <1>1, <2>0, QuietFaults
  <2>2. startRecording(Hw, NoFault, {}).ch["PREVIEW"] = "active"
    BY <1>3, RecordingKeepsPreview
  <2> QED
    BY <2>1, <2>2
<1> DEFINE hw == startRecording(Hw, f, bad)
<1>6. HwBecomes(hw) /\ hw.pp = Hw.pp
      /\ (quiet /\ ~zslMode => hw.ch["PREVIEW"] = "active")
  BY <1>1, <1>4, <1>5
<1> HIDE DEF hw
<1> QED
  BY <1>1, <1>2, <1>3, <1>6, QuietStep

\* A picture that cannot be taken has its postprocessor stopped again: without a
\* failing call that is a ZSL picture that has no channel.
LEMMA QuietPicture == ASSUME IInv, QuietInv, PreviewingTakePicture PROVE QuietInv'
<1>1. PICK f \in {NoFault} \cup
                 (IF zslMode THEN MayFail \cap {"request"} ELSE AddFault({"CAPTURE"})),
           bad \in StartFaults({"CAPTURE"}) :
        /\ HwBecomes(takePicture(Hw, f, bad))
        /\ m_state' = IF TakePictureOk(Hw, f, bad) THEN "PIC_TAKING" ELSE "PREVIEW_STOPPED"
  BY DEF PreviewingTakePicture, Goto
<1>2. UNCHANGED mParameters
  BY DEF PreviewingTakePicture
<1>3. Hw \in HwType /\ zslMode \in BOOLEAN
  BY HwStreams
<1>4. quiet /\ ~TakePictureOk(Hw, f, bad) => ~takePicture(Hw, f, bad).pp
  <2> SUFFICES ASSUME quiet, ~TakePictureOk(Hw, f, bad)
               PROVE  ~takePicture(Hw, f, bad).pp
    OBVIOUS
  <2>0. quiet = TRUE
    BY DEF IInv, TypeOK
  <2>1. f = NoFault /\ bad = {}
    BY <1>1, <2>0, QuietFaults
  <2>2. zslMode
    BY <2>1 DEF TakePictureOk
  <2>3. takePicture(Hw, f, bad) = [Hw EXCEPT !.pp = TakePictureOk(Hw, f, bad)]
    BY <2>2 DEF takePicture
  <2> QED
    BY <1>3, <2>3 DEF HwType
<1> DEFINE ok == TakePictureOk(Hw, f, bad)
           hw == takePicture(Hw, f, bad)
<1>5. /\ HwBecomes(hw)
      /\ m_state' = IF ok THEN "PIC_TAKING" ELSE "PREVIEW_STOPPED"
      /\ quiet /\ ~ok => ~hw.pp
  BY <1>1, <1>4
<1> HIDE DEF ok, hw
<1> QED
  BY <1>2, <1>5, QuietStep, Names

\* A live snapshot starts its postprocessor exactly if it starts, and touches no
\* preview.
LEMMA QuietSnapshot == ASSUME IInv, QuietInv, RecordingTakePicture PROVE QuietInv'
<1>1. PICK bad \in StartFaults({"SNAPSHOT"}) :
        /\ HwBecomes(takeLiveSnapshot(Hw, bad))
        /\ m_state' = IF Starts(Hw, "SNAPSHOT", bad) THEN "VIDEO_PIC_TAKING" ELSE "RECORDING"
  BY DEF RecordingTakePicture, Goto
<1>2. m_state = "RECORDING" /\ UNCHANGED mParameters
  BY DEF RecordingTakePicture, In
<1>3. /\ Hw \in HwType
      /\ quiet /\ ~zslMode => Hw.ch["PREVIEW"] = "active"
  BY <1>2, HwStreams, QuietHw, Names
<1> DEFINE ok == Starts(Hw, "SNAPSHOT", bad)
           hw == takeLiveSnapshot(Hw, bad)
<1>4. hw.ch["PREVIEW"] = Hw.ch["PREVIEW"]
  <2>1. \A c \in Channel \ {"SNAPSHOT"} : hw.ch[c] = Hw.ch[c]
    BY <1>3, LiveSnapshot
  <2> QED
    BY <2>1, Names
<1>5. hw.pp = ok
  <2>1. startChannel(Hw, "SNAPSHOT", bad) \in HwType
    BY <1>3, StartChannel DEF Channel
  <2>2. takeLiveSnapshot(Hw, bad) = [startChannel(Hw, "SNAPSHOT", bad) EXCEPT !.pp = ok]
    BY DEF takeLiveSnapshot
  <2> HIDE DEF ok
  <2> QED
    BY <2>1, <2>2 DEF HwType
<1>6. /\ HwBecomes(hw)
      /\ m_state' = IF ok THEN "VIDEO_PIC_TAKING" ELSE "RECORDING"
  BY <1>1
<1> HIDE DEF hw, ok
<1> QED
  BY <1>2, <1>3, <1>4, <1>5, <1>6, QuietStep, Names

\* Stopping a recording leaves the preview and the postprocessor as they are.
LEMMA QuietStopRecording ==
  ASSUME IInv, QuietInv,
         \/ RecordingStopRecording \/ VideoPicTakingStopRecording
         \/ PreviewPicTakingStartRecording
  PROVE  QuietInv'
<1>1. /\ m_state \in {"RECORDING", "VIDEO_PIC_TAKING", "PREVIEW_PIC_TAKING"}
      /\ m_state' \in IF m_state = "RECORDING" THEN {"PREVIEWING"}
                      ELSE {"VIDEO_PIC_TAKING", "PREVIEW_PIC_TAKING"}
      /\ HwBecomes(stopRecording(Hw))
      /\ UNCHANGED mParameters
  BY DEF RecordingStopRecording, VideoPicTakingStopRecording,
         PreviewPicTakingStartRecording, In, Goto
<1>2. /\ Hw \in HwType
      /\ quiet /\ ~zslMode => Hw.ch["PREVIEW"] = "active"
      /\ quiet /\ Hw.pp => m_state \in PicStates
  BY <1>1, HwStreams, QuietHw, Names
<1> DEFINE hw == stopRecording(Hw)
<1>3. hw.ch["PREVIEW"] = Hw.ch["PREVIEW"] /\ hw.pp = Hw.pp
  BY <1>2, StopChannel, Names DEF stopRecording
<1>4. HwBecomes(hw)
  BY <1>1
<1> HIDE DEF hw
<1> QED
  BY <1>1, <1>2, <1>3, <1>4, QuietStep, Names

\* However a picture ends, its postprocessor is stopped, and a live snapshot
\* leaves the preview behind.
LEMMA QuietCancelled ==
  ASSUME IInv, QuietInv, UNCHANGED mParameters,
         \/ /\ m_state = "PIC_TAKING" /\ m_state' = "PREVIEW_STOPPED"
            /\ HwBecomes(cancelPicture(Hw))
         \/ /\ m_state \in PreviewStates /\ m_state' \in {"RECORDING", "PREVIEWING"}
            /\ HwBecomes(cancelLiveSnapshot(Hw))
  PROVE  QuietInv'
<1>1. /\ Hw \in HwType
      /\ quiet /\ ~zslMode /\ m_state \in PreviewStates => Hw.ch["PREVIEW"] = "active"
  BY HwStreams, QuietHw
<1>2. cancelPicture(Hw).pp = FALSE
  <2>1. stopAndDel(Hw, IF zslMode THEN "ZSL" ELSE "CAPTURE") \in HwType
    BY <1>1, StopAndDel DEF Channel
  <2> QED
    BY <2>1 DEF cancelPicture, HwType
<1>3. /\ cancelLiveSnapshot(Hw).pp = FALSE
      /\ cancelLiveSnapshot(Hw).ch["PREVIEW"] = Hw.ch["PREVIEW"]
  <2>1. stopChannel(Hw, "SNAPSHOT") \in HwType
    BY <1>1, StopChannel DEF Channel
  <2>2. cancelLiveSnapshot(Hw).pp = FALSE
    BY <2>1 DEF cancelLiveSnapshot, HwType
  <2> QED
    BY <1>1, <2>2, LiveSnapshot, Names
<1>4. CASE m_state = "PIC_TAKING" /\ m_state' = "PREVIEW_STOPPED"
           /\ HwBecomes(cancelPicture(Hw))
  BY <1>2, <1>4, QuietStep, Names
<1>5. CASE m_state \in PreviewStates /\ m_state' \in {"RECORDING", "PREVIEWING"}
           /\ HwBecomes(cancelLiveSnapshot(Hw))
  BY <1>1, <1>3, <1>5, QuietStep, Names
<1> QED
  BY <1>4, <1>5

\* Every event keeps the invariant of the quiet behaviours.
LEMMA QuietNext == IInv /\ QuietInv /\ [Next]_vars => QuietInv'
<1> SUFFICES ASSUME IInv, QuietInv, [Next]_vars PROVE QuietInv'
  OBVIOUS
<1>0. /\ \A apis : ~(Refuse(apis) \/ NoOp(apis)) \/ UNCHANGED <<m_state, mParameters, hwVars>>
      /\ \A p, r : ~Query(p, r) \/ UNCHANGED <<m_state, mParameters, hwVars>>
      /\ SetParamsInPlace \/ SetParamsNoRestart \/ ReleaseFrame \/ FocusApis
           => UNCHANGED <<m_state, mParameters, hwVars>>
  BY DEF Refuse, NoOp, Query, SetParamsInPlace, SetParamsNoRestart, ReleaseFrame,
         FocusApis, Untouched
<1>1. CASE StoppedState
  <2>1. StoppedOther => QuietInv'
    BY <1>0, QuietKept DEF StoppedOther
  <2>2. StoppedSetPreviewWindow => QuietInv'
    BY QuietKept DEF StoppedSetPreviewWindow
  <2>3. StoppedStartPreviewNoWindow => QuietInv'
    <3> SUFFICES ASSUME StoppedStartPreviewNoWindow PROVE QuietInv'
      OBVIOUS
    <3>1. /\ m_state = "PREVIEW_STOPPED" /\ m_state' = "PREVIEW_READY"
          /\ UNCHANGED <<mParameters, hwVars>>
      BY DEF StoppedStartPreviewNoWindow, In, Goto
    <3>2. HwBecomes(Hw)
      BY <3>1 DEF HwBecomes, Hw, hwVars
    <3> QED
      BY <3>1, <3>2, QuietHw, QuietStep, Names
  <2> QED
    BY <1>1, <2>1, <2>2, <2>3, QuietStart, QuietStop DEF StoppedState
<1>2. CASE ReadyState
  <2>1. ReadyOther => QuietInv'
    BY <1>0, QuietKept DEF ReadyOther
  <2> QED
    BY <1>2, <2>1, QuietStart, QuietStop DEF ReadyState
<1>3. SetParamsRestart => QuietInv'
  <2>1. SetParamsRestart => quiet' = quiet /\ quiet # TRUE
    BY QuietFaults DEF SetParamsRestart, mParameters
  <2> QED
    BY <2>1 DEF QuietInv, IInv, TypeOK
<1>4. CASE PreviewingState
  <2>1. PreviewingOther => QuietInv'
    BY <1>0, QuietKept DEF PreviewingOther
  <2> QED
    BY <1>3, <1>4, <2>1, QuietStop, QuietRecording, QuietPicture
       DEF PreviewingState, PreviewingSetParams
<1>5. CASE PicTakingState
  <2>1. PicTakingOther => QuietInv'
    BY <1>0, QuietKept DEF PicTakingOther
  <2>2. PicTakingCancelPicture => QuietInv'
    BY QuietCancelled DEF PicTakingCancelPicture, In, Goto
  <2> QED
    BY <1>5, <2>1, <2>2 DEF PicTakingState
<1>6. CASE RecordingState
  <2>1. RecordingOther => QuietInv'
    BY <1>0, QuietKept DEF RecordingOther
  <2> QED
    BY <1>6, <2>1, QuietSnapshot, QuietStopRecording DEF RecordingState
<1>7. CASE VideoPicTakingState
  <2>1. VideoPicTakingOther => QuietInv'
    BY <1>0, QuietKept DEF VideoPicTakingOther
  <2>2. VideoPicTakingCancelPicture => QuietInv'
    BY QuietCancelled, Names DEF VideoPicTakingCancelPicture, In, Goto
  <2> QED
    BY <1>7, <2>1, <2>2, QuietStopRecording DEF VideoPicTakingState
<1>8. CASE PreviewPicTakingState
  <2>1. PreviewPicTakingOther => QuietInv'
    BY <1>0, QuietKept DEF PreviewPicTakingOther
  <2>2. PreviewPicTakingCancelPicture => QuietInv'
    BY QuietCancelled, Names DEF PreviewPicTakingCancelPicture, In, Goto
  <2>3. PreviewPicTakingStopPreview => QuietInv'
    <3> SUFFICES ASSUME PreviewPicTakingStopPreview PROVE QuietInv'
      OBVIOUS
    <3> DEFINE hw == delChannels(stopAndDel(Hw, "PREVIEW"), {"VIDEO"})
    <3>1. m_state' = "PIC_TAKING" /\ HwBecomes(hw) /\ UNCHANGED mParameters
      BY DEF PreviewPicTakingStopPreview, Goto
    <3> HIDE DEF hw
    <3> QED
      BY <3>1, QuietStep, Names
  <2> QED
    BY <1>3, <1>8, <2>1, <2>2, <2>3, QuietStopRecording
       DEF PreviewPicTakingState, PreviewPicTakingSetParams
<1>9. CASE PlainApis
  BY <1>0, <1>9, QuietKept DEF PlainApis
<1>10. CASE PostSnapshotDone \/ DropStoppedPicture
  BY <1>10, QuietKept DEF PostSnapshotDone, DropStoppedPicture
<1>11. CASE SnapshotDone
  <2>1. \/ UNCHANGED <<m_state, mParameters, hwVars>>
        \/ /\ m_state = "PIC_TAKING" /\ m_state' = "PREVIEW_STOPPED"
           /\ HwBecomes(cancelPicture(Hw))
        \/ /\ m_state \in PreviewStates /\ m_state' \in {"RECORDING", "PREVIEWING"}
           /\ HwBecomes(cancelLiveSnapshot(Hw))
    BY <1>11, Names DEF SnapshotDone, In, Goto
  <2>2. UNCHANGED mParameters
    BY <1>11 DEF SnapshotDone
  <2> QED
    BY <2>1, <2>2, QuietKept, QuietCancelled
<1>12. CASE UNCHANGED vars
  BY <1>12, QuietKept DEF vars
<1> QED
  BY <1>1, <1>2, <1>4, <1>5, <1>6, <1>7, <1>8, <1>9, <1>10, <1>11, <1>12 DEF Next

\* In every behaviour the invariant of the quiet ones holds.
LEMMA QuietInvariance == Spec => []QuietInv
<1>1. Init => QuietInv
  BY Names DEF Init, QuietInv
<1> QED
  BY <1>1, QuietNext, Invariance, PTL DEF Spec

\* As long as no call fails, the postprocessor runs only in a picture state.
THEOREM PostprocessorStopped == Spec => []PostprocessorStoppedOutsidePictures
<1>1. QuietInv => PostprocessorStoppedOutsidePictures
  BY DEF QuietInv, PostprocessorStoppedOutsidePictures
<1> QED
  BY <1>1, QuietInvariance, PTL

\* As long as no call fails, the preview streams where the state says so, and a
\* recording keeps it.
THEOREM PreviewGoesOn == Spec => []PreviewSurvives
<1>1. QuietInv => PreviewSurvives
  BY Names DEF QuietInv, PreviewSurvives, MainChannel
<1> QED
  BY <1>1, QuietInvariance, PTL

-----------------------------------------------------------------------------
(* The state machine implements PictureNotifier: with the postprocessor and  *)
(* the ends of pictures it does only what that specification allows,         *)
(* whatever fails and however many pictures are taken                        *)

\* What PictureNotifier sees of the machine stays the same.
PicturesKept == UNCHANGED <<pictures, postproc, shooting, evt_queue>>

\* A step that leaves the pictures alone is a stutter if it leaves the
\* postprocessor alone, too,
LEMMA HwKept ==
  ASSUME UNCHANGED <<picVars, evt_queue>>, NEW hw, HwBecomes(hw), hw.pp = postproc
  PROVE  PicturesKept
BY DEF picVars, HwBecomes, PicturesKept

\* and otherwise a stop.
LEMMA HwStopped ==
  ASSUME UNCHANGED <<picVars, evt_queue>>, NEW hw, HwBecomes(hw), hw.pp = FALSE
  PROVE  Notifier!Stop
BY DEF picVars, HwBecomes, Notifier!Stop

\* No answer that changes nothing is seen.
LEMMA AnswersUnseen ==
  /\ Untouched => PicturesKept
  /\ \A apis : Refuse(apis) \/ NoOp(apis) => PicturesKept
  /\ \A p, r : Query(p, r) => PicturesKept
  /\ SetParamsInPlace => PicturesKept
  /\ SetParamsNoRestart => PicturesKept
  /\ PlainApis => PicturesKept
  /\ ReleaseFrame => PicturesKept
  /\ FocusApis => PicturesKept
<1>1. Untouched => PicturesKept
  BY DEF Untouched, hwVars, picVars, PicturesKept
<1>2. \A apis : Refuse(apis) \/ NoOp(apis) => Untouched
  BY DEF Refuse, NoOp
<1>3. \A p, r : Query(p, r) => Untouched
  BY DEF Query
<1>4. SetParamsInPlace \/ SetParamsNoRestart => Untouched
  BY DEF SetParamsInPlace, SetParamsNoRestart
<1>5. PlainApis \/ ReleaseFrame \/ FocusApis => Untouched
  BY <1>2 DEF PlainApis, ReleaseFrame, FocusApis
<1> QED
  BY <1>1, <1>2, <1>3, <1>4, <1>5

\* The commands to the postprocessor the operations end with.
LEMMA StopsPostproc ==
  ASSUME NEW hw \in HwType
  PROVE  cancelPicture(hw).pp = FALSE /\ cancelLiveSnapshot(hw).pp = FALSE
<1> DEFINE c == IF zslMode THEN "ZSL" ELSE "CAPTURE"
<1>1. c \in Channel /\ "SNAPSHOT" \in Channel
  BY DEF Channel
<1>2. stopAndDel(hw, c) \in HwType /\ stopChannel(hw, "SNAPSHOT") \in HwType
  BY <1>1, StopAndDel, StopChannel
<1> QED
  BY <1>2 DEF cancelPicture, cancelLiveSnapshot, HwType

\* The preview comes and goes without the postprocessor.
LEMMA PreviewUnseen ==
  ASSUME TypeOK,
         \/ StoppedStartPreview \/ StoppedRelease \/ ReadySetPreviewWindow
         \/ ReadyStopPreview \/ PreviewingStopPreview \/ PreviewPicTakingStopPreview
  PROVE  PicturesKept
<1>1. Hw \in HwType /\ Hw.pp = postproc /\ zslMode \in BOOLEAN
  BY HwTyped DEF TypeOK, Hw
<1>2. CASE StoppedStartPreview
  <2>1. PICK f, bad :
          LET ready == preparePreview(Hw, f)
              ok    == f = NoFault /\ StartPreviewOk(ready, bad)
              after == IF f = NoFault THEN startPreview(ready, bad) ELSE ready
          IN  HwBecomes(IF f = NoFault /\ ~ok THEN unpreparePreview(after) ELSE after)
    BY <1>2 DEF StoppedStartPreview
  <2> DEFINE ready == preparePreview(Hw, f)
             after == IF f = NoFault THEN startPreview(ready, bad) ELSE ready
  <2>2. ready \in HwType /\ ready.pp = postproc
    BY <1>1, PreparePreview
  <2> HIDE DEF ready
  <2>3. after \in HwType /\ after.pp = postproc
    BY <1>1, <2>2, StartPreview
  <2>4. HwBecomes(after) \/ HwBecomes(unpreparePreview(after))
    BY <2>1 DEF ready
  <2> HIDE DEF after
  <2>5. unpreparePreview(after).pp = postproc
    BY <1>1, <2>3, UnpreparePreview
  <2>6. UNCHANGED <<picVars, evt_queue>>
    BY <1>2 DEF StoppedStartPreview
  <2> QED
    BY <2>3, <2>4, <2>5, <2>6, HwKept
<1>3. CASE StoppedRelease
  BY <1>1, <1>3, HwKept DEF StoppedRelease, release, HwType
<1>4. CASE ReadySetPreviewWindow
  <2>1. UNCHANGED <<picVars, evt_queue>>
    BY <1>4 DEF ReadySetPreviewWindow
  <2>2. CASE mPreviewWindow'
    <3>1. PICK bad :
            LET after == startPreview(Hw, bad)
            IN  HwBecomes(after) \/ HwBecomes(unpreparePreview(after))
      BY <1>4, <2>2 DEF ReadySetPreviewWindow
    <3> DEFINE after == startPreview(Hw, bad)
    <3>2. after \in HwType /\ after.pp = postproc
      BY <1>1, StartPreview
    <3>3. HwBecomes(after) \/ HwBecomes(unpreparePreview(after))
      BY <3>1
    <3> HIDE DEF after
    <3>4. unpreparePreview(after).pp = postproc
      BY <1>1, <3>2, UnpreparePreview
    <3> QED
      BY <2>1, <3>2, <3>3, <3>4, HwKept
  <2>3. CASE ~mPreviewWindow'
    BY <1>4, <2>1, <2>3 DEF ReadySetPreviewWindow, hwVars, picVars, PicturesKept
  <2> QED
    BY <2>2, <2>3
<1>5. CASE ReadyStopPreview
  BY <1>1, <1>5, UnpreparePreview, HwKept DEF ReadyStopPreview
<1>6. CASE PreviewingStopPreview
  BY <1>1, <1>6, StopPreview, HwKept DEF PreviewingStopPreview
<1>7. CASE PreviewPicTakingStopPreview
  <2>1. "PREVIEW" \in Channel /\ {"VIDEO"} \in SUBSET Channel
    BY DEF Channel
  <2>2. stopAndDel(Hw, "PREVIEW") \in HwType /\ stopAndDel(Hw, "PREVIEW").pp = postproc
    BY <1>1, <2>1, StopAndDel
  <2>3. delChannels(stopAndDel(Hw, "PREVIEW"), {"VIDEO"}).pp = postproc
    BY <2>1, <2>2, DelChannels
  <2> QED
    BY <1>7, <2>3, HwKept DEF PreviewPicTakingStopPreview
<1> QED
  BY <1>2, <1>3, <1>4, <1>5, <1>6, <1>7

\* So does a restart for the parameters.
LEMMA RestartUnseen ==
  ASSUME TypeOK, SetParamsRestart
  PROVE  PicturesKept
<1>1. Hw \in HwType /\ Hw.pp = postproc /\ zslMode \in BOOLEAN
  BY HwTyped DEF TypeOK, Hw
<1>2. PICK bad : HwBecomes(startPreview(stopPreview(Hw), bad))
  BY DEF SetParamsRestart
<1>3. stopPreview(Hw) \in HwType /\ stopPreview(Hw).pp = postproc
  BY <1>1, StopPreview
<1>4. startPreview(stopPreview(Hw), bad).pp = postproc
  BY <1>1, <1>3, StartPreview
<1> QED
  BY <1>2, <1>4, HwKept DEF SetParamsRestart

\* And a recording.
LEMMA RecordingUnseen ==
  ASSUME TypeOK,
         \/ PreviewingStartRecording \/ RecordingStopRecording
         \/ VideoPicTakingStopRecording \/ PreviewPicTakingStartRecording
  PROVE  PicturesKept
<1>1. /\ Hw \in HwType /\ Hw.pp = postproc
      /\ zslMode \in BOOLEAN /\ hintStored \in BOOLEAN
  BY HwTyped DEF TypeOK, Hw
<1>2. CASE PreviewingStartRecording
  <2>1. PICK f, bad : HwBecomes(startRecording(Hw, f, bad))
    BY <1>2 DEF PreviewingStartRecording
  <2>2. startRecording(Hw, f, bad).pp = postproc
    BY <1>1, StartRecording
  <2> QED
    BY <1>2, <2>1, <2>2, HwKept DEF PreviewingStartRecording
<1>3. CASE \/ RecordingStopRecording \/ VideoPicTakingStopRecording
           \/ PreviewPicTakingStartRecording
  <2>1. HwBecomes(stopRecording(Hw)) /\ UNCHANGED <<picVars, evt_queue>>
    BY <1>3 DEF RecordingStopRecording, VideoPicTakingStopRecording,
                PreviewPicTakingStartRecording
  <2>2. "VIDEO" \in Channel
    BY DEF Channel
  <2>3. stopRecording(Hw).pp = postproc
    BY <1>1, <2>2, StopChannel DEF stopRecording
  <2> QED
    BY <2>1, <2>3, HwKept
<1> QED
  BY <1>2, <1>3

\* Each start of the postprocessor is the start of a picture.
LEMMA PictureStarts ==
  ASSUME TypeOK, PreviewingTakePicture \/ RecordingTakePicture
  PROVE  Notifier!Start
<1>1. Hw \in HwType /\ zslMode \in BOOLEAN
  BY HwTyped DEF TypeOK
<1>2. NewPicture /\ UNCHANGED evt_queue
  BY DEF PreviewingTakePicture, RecordingTakePicture
<1>3. postproc' \in BOOLEAN
  <2>1. CASE PreviewingTakePicture
    <3>1. PICK f \in {NoFault} \cup
                     (IF zslMode THEN MayFail \cap {"request"}
                      ELSE AddFault({"CAPTURE"})),
                 bad \in StartFaults({"CAPTURE"}) :
            HwBecomes(takePicture(Hw, f, bad))
      BY <2>1 DEF PreviewingTakePicture
    <3>2. ~zslMode => f \in {NoFault, "CAPTURE"}
      BY DEF AddFault
    <3>3. takePicture(Hw, f, bad) \in HwType
      BY <1>1, <3>2, TakePicture
    <3> QED
      BY <3>1, <3>3 DEF HwBecomes, HwType
  <2>2. CASE RecordingTakePicture
    <3>1. PICK bad : HwBecomes(takeLiveSnapshot(Hw, bad))
      BY <2>2 DEF RecordingTakePicture
    <3>2. takeLiveSnapshot(Hw, bad) \in HwType
      BY <1>1, LiveSnapshot
    <3> QED
      BY <3>1, <3>2 DEF HwBecomes, HwType
  <2> QED
    BY <2>1, <2>2
<1> QED
  BY <1>2, <1>3 DEF NewPicture, Notifier!Start

\* A picture is cancelled by stopping the postprocessor.
LEMMA CancelStops ==
  ASSUME TypeOK, \/ PicTakingCancelPicture \/ VideoPicTakingCancelPicture
                 \/ PreviewPicTakingCancelPicture
  PROVE  Notifier!Stop
<1>1. cancelPicture(Hw).pp = FALSE /\ cancelLiveSnapshot(Hw).pp = FALSE
  BY HwTyped, StopsPostproc
<1> QED
  BY <1>1, HwStopped DEF PicTakingCancelPicture, VideoPicTakingCancelPicture,
                         PreviewPicTakingCancelPicture

\* An end is taken once, and stops the postprocessor in a picture state.
LEMMA EndTaken == ASSUME TypeOK, SnapshotDone PROVE Notifier!Take
<1>1. cancelPicture(Hw).pp = FALSE /\ cancelLiveSnapshot(Hw).pp = FALSE
  BY HwTyped, StopsPostproc
<1>2. \/ HwBecomes(cancelPicture(Hw))
      \/ HwBecomes(cancelLiveSnapshot(Hw))
      \/ UNCHANGED hwVars
  BY DEF SnapshotDone
<1>3. postproc' \in {postproc, FALSE}
  BY <1>1, <1>2 DEF HwBecomes, hwVars
<1> QED
  BY <1>3 DEF SnapshotDone, Notifier!Take, picVars

\* A step of the machine is a step of PictureNotifier or a stutter.
LEMMA StepRefines ==
  ASSUME TypeOK, [Next]_vars
  PROVE  [Notifier!Next]_(Notifier!vars)
<1>1. PicturesKept => UNCHANGED Notifier!vars
  BY DEF PicturesKept, Notifier!vars
<1>2. CASE StoppedState
  <2>1. StoppedSetPreviewWindow \/ StoppedStartPreviewNoWindow => PicturesKept
    BY DEF StoppedSetPreviewWindow, StoppedStartPreviewNoWindow, hwVars, picVars,
           PicturesKept
  <2> QED
    BY <1>1, <1>2, <2>1, PreviewUnseen, AnswersUnseen DEF StoppedState, StoppedOther
<1>3. CASE ReadyState
  BY <1>1, <1>3, PreviewUnseen, AnswersUnseen DEF ReadyState, ReadyOther
<1>4. CASE PreviewingState
  <2>1. PreviewingTakePicture => Notifier!Next
    BY PictureStarts DEF Notifier!Next
  <2> QED
    BY <1>1, <1>4, <2>1, PreviewUnseen, RestartUnseen, RecordingUnseen, AnswersUnseen
    DEF PreviewingState, PreviewingOther, PreviewingSetParams
<1>5. CASE PicTakingState
  BY <1>1, <1>5, CancelStops, AnswersUnseen
  DEF PicTakingState, PicTakingOther, Notifier!Next
<1>6. CASE RecordingState
  BY <1>1, <1>6, PictureStarts, RecordingUnseen, AnswersUnseen
  DEF RecordingState, RecordingOther, Notifier!Next
<1>7. CASE VideoPicTakingState
  BY <1>1, <1>7, CancelStops, RecordingUnseen, AnswersUnseen
  DEF VideoPicTakingState, VideoPicTakingOther, Notifier!Next
<1>8. CASE PreviewPicTakingState
  BY <1>1, <1>8, CancelStops, PreviewUnseen, RestartUnseen, RecordingUnseen, AnswersUnseen
  DEF PreviewPicTakingState, PreviewPicTakingOther, PreviewPicTakingSetParams, Notifier!Next
<1>9. CASE PlainApis
  BY <1>1, <1>9, AnswersUnseen
<1>10. CASE PostSnapshotDone
  BY <1>10 DEF PostSnapshotDone, hwVars, Notifier!Next, Notifier!Post
<1>11. CASE DropStoppedPicture
  BY <1>11 DEF DropStoppedPicture, hwVars, Notifier!Next, Notifier!GiveUp
<1>12. CASE SnapshotDone
  BY <1>12, EndTaken DEF Notifier!Next
<1>13. CASE UNCHANGED vars
  BY <1>13 DEF vars, hwVars, picVars, Notifier!vars
<1> QED
  BY <1>2, <1>3, <1>4, <1>5, <1>6, <1>7, <1>8, <1>9, <1>10, <1>11, <1>12, <1>13 DEF Next

\* The state machine starts both threads of the postprocessor for every picture
\* and at no other time, takes each end once, and loses none.
THEOREM Refinement == Spec => NotifiesPictures
<1>1. Init => Notifier!Init
  BY DEF Init, Notifier!Init
<1>2. TypeOK /\ [Next]_vars => [Notifier!Next]_(Notifier!vars)
  BY StepRefines
<1> QED
  BY <1>1, <1>2, TypeCorrect, PTL DEF Spec, NotifiesPictures, Notifier!Spec
=============================================================================
