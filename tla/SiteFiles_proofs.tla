--------------------------- MODULE SiteFiles_proofs ---------------------------
(***************************************************************************)
(* The copies of a build, for any contents, stamps, clock and number of    *)
(* images.                                                                 *)
(*                                                                         *)
(* The argument: the jobs of a build are done in an order in which no job  *)
(* reads what a later one writes, so that a job once done stays done to    *)
(* the end of the build; and a copy is not needed again unless its source  *)
(* was stamped ahead of the clock.                                         *)
(***************************************************************************)
EXTENDS SiteFiles, TLAPS, SequenceTheorems

-----------------------------------------------------------------------------
(* The jobs of a build.                                                    *)

Choices == theme \in Themes /\ images \in ImageLists

LEMMA ImageListFacts ==
    ASSUME NEW s \in ImageLists
    PROVE  Len(s) \in Nat /\ DOMAIN s = 1 .. Len(s) /\ \A i \in DOMAIN s : s[i] \in Images
<1>1. PICK n \in 0 .. MaxImages : s \in [1 .. n -> Images]
  BY DEF ImageLists
<1>2. n \in Nat
  BY CopyBoundsAssumption
<1>3. s \in Seq(Images) /\ Len(s) = n
  BY <1>1, <1>2
<1> QED
  BY <1>1, <1>2, <1>3

(* Places are told apart by their directory and their name. *)
LEMMA Places ==
    ASSUME NEW n
    PROVE  /\ Site(n)[1] = "SITE" /\ Parent(n)[1] = "PARENT" /\ ParentFonts(n)[1] = "PARENT OUT"
           /\ Out(n)[1] = "OUT" /\ Picture(n)[1] = "IMG" /\ OutPicture(n)[1] = "OUT IMG"
BY DEF Site, Parent, ParentFonts, Out, Picture, OutPicture
LEMMA SamePlace ==
    /\ \A n, m : Out(n) = Out(m) => n = m
    /\ \A n, m : OutPicture(n) = OutPicture(m) => n = m
BY DEF Out, OutPicture

LEMMA ThemeFacts ==
    ASSUME NEW t \in Themes
    PROVE  /\ CssText[t] \notin {"nothing", "none"}
           /\ CssName[t] \notin {"THEME.CSS", "THEME.JS"} \cup Fonts
           /\ \A u \in Themes : CssName[t] = CssName[u] => t = u
<1>1. /\ CssText["vga"] = "default VGA" /\ CssText["win98"] = "default WIN98"
      /\ CssText["crt"] = "default CRT"
  BY DEF CssText
<1>2. /\ CssName["vga"] = "VGA.CSS" /\ CssName["win98"] = "WIN98.CSS"
      /\ CssName["crt"] = "CRT.CSS"
  BY DEF CssName
<1> QED
  BY <1>1, <1>2 DEF Themes, Fonts

(* The parts of the jobs. *)
LEMMA CssParts ==
    \A t : /\ CssJob(t).to = Out(CssName[t]) /\ CssJob(t).text = CssText[t]
          /\ DOMAIN CssJob(t).from = {1} /\ Len(CssJob(t).from) = 1
          /\ CssJob(t).from[1] = Site(SrcName[t])
BY DEF CssJob, Job
LEMMA FontParts ==
    \A f : FontJob(f).to = Out(f) /\ FontJob(f).text = "none" /\ FontJob(f).from = FontPlaces(f)
BY DEF FontJob, Job, None
LEMMA ActiveParts ==
    /\ ActiveCss.to = Out("THEME.CSS") /\ ActiveCss.text = "none"
    /\ DOMAIN ActiveCss.from = {1} /\ Len(ActiveCss.from) = 1
    /\ ActiveCss.from[1] = Out(CssName[theme])
BY DEF ActiveCss, Job, None
LEMMA ScriptParts ==
    /\ ScriptJob.to = Out("THEME.JS") /\ ScriptJob.text = "default script"
    /\ DOMAIN ScriptJob.from = {1} /\ Len(ScriptJob.from) = 1
    /\ ScriptJob.from[1] = Site("THEME.JS")
BY DEF ScriptJob, Job, ScriptText
LEMMA ImageParts ==
    \A p : /\ ImageJob(p).to = OutPicture(p) /\ ImageJob(p).text = "none"
          /\ DOMAIN ImageJob(p).from = {1} /\ Len(ImageJob(p).from) = 1
          /\ ImageJob(p).from[1] = Picture(p)
BY DEF ImageJob, Job, None

Joins(r, s, u) ==
    /\ Len(r) = 8 + Len(u)
    /\ \A i \in 1 .. 8 : r[i] = s[i]
    /\ \A i \in 9 .. Len(r) : r[i] = u[i - 8]
LEMMA TwoLists ==
    ASSUME NEW S, NEW s \in Seq(S), NEW u \in Seq(S), Len(s) = 8
    PROVE  s \o u \in Seq(S) /\ Joins(s \o u, s, u)
<1>1. /\ s \o u \in Seq(S) /\ Len(s \o u) = Len(s) + Len(u)
      /\ \A i \in 1 .. Len(s) + Len(u) :
            (s \o u)[i] = IF i <= Len(s) THEN s[i] ELSE u[i - Len(s)]
  BY ConcatProperties
<1>2. Len(u) \in Nat
  OBVIOUS
<1>3. \A r : /\ r \in Seq(S) /\ Len(r) = Len(s) + Len(u)
             /\ \A i \in 1 .. Len(s) + Len(u) : r[i] = IF i <= Len(s) THEN s[i] ELSE u[i - Len(s)]
             => Joins(r, s, u)
  BY <1>2 DEF Joins
<1> QED
  BY <1>1, <1>3

(* Each job by its number. *)
LEMMA JobNumbers ==
    ASSUME Choices
    PROVE  /\ Len(AllJobs) = 8 + Len(images) /\ Len(images) \in Nat
           /\ DOMAIN AllJobs = 1 .. Len(AllJobs)
           /\ AllJobs[1] = CssJob("vga") /\ AllJobs[2] = CssJob("win98")
           /\ AllJobs[3] = CssJob("crt") /\ AllJobs[4] = ActiveCss
           /\ AllJobs[5] = FontJob("VGA.TTF") /\ AllJobs[6] = FontJob("CRT.TTF")
           /\ AllJobs[7] = FontJob("W98.TTF") /\ AllJobs[8] = ScriptJob
           /\ \A i \in 9 .. Len(AllJobs) : \E p \in Images : AllJobs[i] = ImageJob(p)
<1> DEFINE Pictures == [i \in DOMAIN images |-> ImageJob(images[i])]
           Any == {AllJobs[i] : i \in DOMAIN AllJobs} \cup {FixedJobs[i] : i \in 1 .. 8}
                  \cup {ImageJob(p) : p \in Images}
<1>1. Len(images) \in Nat /\ DOMAIN images = 1 .. Len(images)
      /\ \A i \in DOMAIN images : images[i] \in Images
  BY ImageListFacts DEF Choices
<1>2. Pictures \in [1 .. Len(images) -> Any]
  BY <1>1
<1>3. Pictures \in Seq(Any) /\ Len(Pictures) = Len(images)
  BY <1>1, <1>2
<1>4. FixedJobs \in Seq(Any) /\ Len(FixedJobs) = 8
  BY DEF FixedJobs
<1>5. AllJobs = FixedJobs \o Pictures
  BY DEF AllJobs
<1> HIDE DEF Pictures, Any
<1>6. /\ AllJobs \in Seq(Any) /\ Len(AllJobs) = 8 + Len(images)
      /\ \A i \in 1 .. 8 : AllJobs[i] = FixedJobs[i]
      /\ \A i \in 9 .. Len(AllJobs) : AllJobs[i] = Pictures[i - 8]
  <2>1. FixedJobs \o Pictures \in Seq(Any) /\ Joins(FixedJobs \o Pictures, FixedJobs, Pictures)
    BY <1>3, <1>4, TwoLists
  <2>2. AllJobs \in Seq(Any) /\ Joins(AllJobs, FixedJobs, Pictures)
    BY <1>5, <2>1
  <2> QED
    BY <1>3, <2>2 DEF Joins
<1>7. \A i \in 9 .. Len(AllJobs) : \E p \in Images : AllJobs[i] = ImageJob(p)
  <2>1. SUFFICES ASSUME NEW i \in 9 .. Len(AllJobs)
                 PROVE  \E p \in Images : AllJobs[i] = ImageJob(p)
    OBVIOUS
  <2>2. i - 8 \in DOMAIN images
    BY <1>1, <1>6
  <2>3. Pictures[i - 8] = ImageJob(images[i - 8])
    BY <2>2 DEF Pictures
  <2> QED
    BY <1>1, <1>6, <2>2, <2>3
<1>8. DOMAIN AllJobs = 1 .. Len(AllJobs)
  BY <1>6
<1> QED
  BY <1>1, <1>6, <1>7, <1>8 DEF FixedJobs

(* All that a job can be. *)
AnyJob == {CssJob(t) : t \in Themes} \cup {FontJob(f) : f \in Fonts}
          \cup {ActiveCss, ScriptJob} \cup {ImageJob(p) : p \in Images}

LEMMA JobsAreJobs == Choices => Jobs \subseteq AnyJob
<1> SUFFICES ASSUME Choices, NEW i \in 1 .. Len(AllJobs) PROVE AllJobs[i] \in AnyJob
  BY JobNumbers DEF Jobs
<1>1. i \in 1 .. 8 \/ i \in 9 .. Len(AllJobs)
  BY JobNumbers
<1>2. ASSUME i \in 1 .. 8 PROVE AllJobs[i] \in AnyJob
  <2>1. i = 1 \/ i = 2 \/ i = 3 \/ i = 4 \/ i = 5 \/ i = 6 \/ i = 7 \/ i = 8
    BY <1>2
  <2> QED
    BY <2>1, JobNumbers DEF AnyJob, Themes, Fonts
<1>3. ASSUME i \in 9 .. Len(AllJobs) PROVE AllJobs[i] \in AnyJob
  BY <1>3, JobNumbers DEF AnyJob
<1> QED
  BY <1>1, <1>2, <1>3

(* The places of the fonts. *)
LEMMA FontFacts ==
    ASSUME NEW f \in Fonts
    PROVE  /\ Len(FontPlaces(f)) \in Nat /\ DOMAIN FontPlaces(f) = 1 .. Len(FontPlaces(f))
           /\ \A i \in DOMAIN FontPlaces(f) :
                 /\ FontPlaces(f)[i] \in FontFiles
                 /\ FontPlaces(f)[i][1] \in {"SITE", "PARENT", "PARENT OUT"}
<1> DEFINE Where == {Site(f), Parent(f), ParentFonts(f), Site("font.ttf"), Parent("font.ttf")}
<1>1. FontPlaces(f) \in Seq(Where)
  <2>1. CASE f = "VGA.TTF"
    BY <2>1 DEF FontPlaces
  <2>2. CASE f # "VGA.TTF"
    BY <2>2 DEF FontPlaces
  <2> QED
    BY <2>1, <2>2
<1>2. \A w \in Where : w[1] \in {"SITE", "PARENT", "PARENT OUT"}
  BY Places
<1> HIDE DEF Where
<1>3. \A i \in DOMAIN FontPlaces(f) : FontPlaces(f)[i] \in FontFiles
  BY DEF FontFiles
<1>4. Len(FontPlaces(f)) \in Nat /\ DOMAIN FontPlaces(f) = 1 .. Len(FontPlaces(f))
  BY <1>1
<1>5. \A i \in DOMAIN FontPlaces(f) : FontPlaces(f)[i] \in Where
  BY <1>1
<1> QED
  BY <1>2, <1>3, <1>4, <1>5

(* The user's files, by where they are. *)
OfUser(x) == x \in UserFiles /\ x[1] \in {"SITE", "PARENT", "PARENT OUT", "IMG"}

LEMMA OneSource ==
    ASSUME NEW s, DOMAIN s = {1}, Len(s) = 1, OfUser(s[1])
    PROVE  /\ DOMAIN s = 1 .. Len(s) /\ Len(s) \in Nat
           /\ \A k \in DOMAIN s : OfUser(s[k])
OBVIOUS

LEMMA OnePlace ==
    ASSUME NEW s, DOMAIN s = {1}, Len(s) = 1
    PROVE  DOMAIN s = 1 .. Len(s) /\ Len(s) \in Nat /\ \A k \in DOMAIN s : k = 1
OBVIOUS

(* The target of a job is no file of the user's; its sources are, but for  *)
(* THEME.CSS, which is copied from the style sheet of the theme.           *)
LEMMA JobFacts ==
    ASSUME Choices, NEW j \in AnyJob
    PROVE  /\ j.to \in Targets /\ j.to[1] \in {"OUT", "OUT IMG"} /\ j.text # "nothing"
           /\ DOMAIN j.from = 1 .. Len(j.from) /\ Len(j.from) \in Nat
           /\ \A k \in DOMAIN j.from :
                 \/ OfUser(j.from[k])
                 \/ /\ j = ActiveCss /\ j.to = Out("THEME.CSS")
                    /\ j.from[k] = Out(CssName[theme]) /\ j.from[k] \in Targets
<1>1. ASSUME NEW t \in Themes, j = CssJob(t)
      PROVE  /\ j.to \in Targets /\ j.to[1] \in {"OUT", "OUT IMG"} /\ j.text # "nothing"
             /\ DOMAIN j.from = {1} /\ Len(j.from) = 1 /\ OfUser(j.from[1])
  <2>1. /\ j.to = Out(CssName[t]) /\ j.text = CssText[t] /\ DOMAIN j.from = {1}
        /\ Len(j.from) = 1 /\ j.from[1] = Site(SrcName[t])
    BY <1>1, CssParts
  <2>2. j.to \in Targets /\ j.from[1] \in UserFiles
    BY <2>1 DEF Targets, UserFiles
  <2>3. j.text # "nothing"
    BY <2>1, ThemeFacts
  <2> QED
    BY <2>1, <2>2, <2>3, Places, ZenonT(60) DEF OfUser
<1>2. ASSUME NEW f \in Fonts, j = FontJob(f)
      PROVE  /\ j.to \in Targets /\ j.to[1] \in {"OUT", "OUT IMG"} /\ j.text # "nothing"
             /\ DOMAIN j.from = 1 .. Len(j.from) /\ Len(j.from) \in Nat
             /\ \A k \in DOMAIN j.from : OfUser(j.from[k])
  <2>1. j.from = FontPlaces(f) /\ j.to = Out(f) /\ j.text = "none"
    BY <1>2, FontParts
  <2>2. FontFiles \subseteq UserFiles /\ j.to \in Targets
    BY <2>1 DEF UserFiles, Targets
  <2> QED
    BY <2>1, <2>2, FontFacts, Places DEF OfUser
<1>3. ASSUME j = ActiveCss
      PROVE  /\ j.to \in Targets /\ j.to[1] \in {"OUT", "OUT IMG"} /\ j.text # "nothing"
             /\ DOMAIN j.from = {1} /\ Len(j.from) = 1 /\ j.to = Out("THEME.CSS")
             /\ j.from[1] = Out(CssName[theme]) /\ j.from[1] \in Targets
  <2>1. j.to \in Targets /\ j.from[1] \in Targets
    BY <1>3, ActiveParts DEF Targets, Choices
  <2> QED
    BY <1>3, <2>1, ActiveParts, Places
<1>4. ASSUME j = ScriptJob
      PROVE  /\ j.to \in Targets /\ j.to[1] \in {"OUT", "OUT IMG"} /\ j.text # "nothing"
             /\ DOMAIN j.from = {1} /\ Len(j.from) = 1 /\ OfUser(j.from[1])
  <2>1. j.to \in Targets /\ j.from[1] \in UserFiles
    BY <1>4, ScriptParts DEF Targets, UserFiles
  <2> QED
    BY <1>4, <2>1, ScriptParts, Places DEF OfUser
<1>5. ASSUME NEW p \in Images, j = ImageJob(p)
      PROVE  /\ j.to \in Targets /\ j.to[1] \in {"OUT", "OUT IMG"} /\ j.text # "nothing"
             /\ DOMAIN j.from = {1} /\ Len(j.from) = 1 /\ OfUser(j.from[1])
  <2>1. /\ j.to = OutPicture(p) /\ j.text = "none" /\ DOMAIN j.from = {1}
        /\ Len(j.from) = 1 /\ j.from[1] = Picture(p)
    BY <1>5, ImageParts
  <2>2. j.to \in Targets /\ j.from[1] \in UserFiles
    BY <2>1 DEF Targets, UserFiles
  <2> QED
    BY <2>1, <2>2, Places DEF OfUser
<1>6. CASE j = ActiveCss
  <2>1. DOMAIN j.from = {1} /\ Len(j.from) = 1
    BY <1>3, <1>6
  <2>2. /\ DOMAIN j.from = 1 .. Len(j.from) /\ Len(j.from) \in Nat
        /\ \A k \in DOMAIN j.from : k = 1
    BY <2>1, OnePlace
  <2> QED
    BY <1>3, <1>6, <2>2
<1> QED
  BY <1>1, <1>2, <1>4, <1>5, <1>6, OneSource DEF AnyJob

(* A target has one job. *)
LEMMA OneJobPerTarget ==
    ASSUME NEW j \in AnyJob, NEW k \in AnyJob, j.to = k.to
    PROVE  j = k
<1> DEFINE Kind(x, n) == \/ \E t \in Themes : x = CssJob(t) /\ n = CssName[t]
                         \/ \E f \in Fonts : x = FontJob(f) /\ n = f
                         \/ x = ActiveCss /\ n = "THEME.CSS"
                         \/ x = ScriptJob /\ n = "THEME.JS"
           Image(x) == \E p \in Images : x = ImageJob(p)
<1>1. ASSUME NEW x \in AnyJob, ~Image(x) PROVE \E n : Kind(x, n)
  BY <1>1 DEF AnyJob
<1>2. \A x, n : Kind(x, n) => x.to = Out(n)
  BY CssParts, FontParts, ActiveParts, ScriptParts
<1>3. ASSUME NEW x, NEW y, NEW n, Kind(x, n), Kind(y, n) PROVE x = y
  <2>1. /\ \A t, u \in Themes : CssName[t] = CssName[u] => t = u
        /\ \A t \in Themes : CssName[t] \notin {"THEME.CSS", "THEME.JS"} \cup Fonts
    BY ThemeFacts
  <2>2. "THEME.CSS" \notin Fonts /\ "THEME.JS" \notin Fonts /\ "THEME.CSS" # "THEME.JS"
    BY DEF Fonts
  <2> QED
    BY <1>3, <2>1, <2>2
<1> HIDE DEF Kind
<1>4. CASE ~Image(j) /\ ~Image(k)
  <2>1. PICK n : Kind(j, n)
    BY <1>1, <1>4
  <2>2. PICK m : Kind(k, m)
    BY <1>1, <1>4
  <2>3. n = m
    BY <1>2, <2>1, <2>2, SamePlace
  <2> QED
    BY <1>3, <2>1, <2>2, <2>3
<1>5. ASSUME NEW x \in AnyJob, NEW y \in AnyJob, Image(x), ~Image(y) PROVE x.to # y.to
  <2>1. x.to[1] = "OUT IMG"
    BY <1>5, ImageParts, Places
  <2>2. y.to[1] = "OUT"
    BY <1>1, <1>2, <1>5, Places, ZenonT(60)
  <2> QED
    BY <2>1, <2>2
<1>6. CASE Image(j) /\ Image(k)
  BY <1>6, ImageParts, SamePlace
<1> QED
  BY <1>4, <1>5, <1>6

LEMMA TargetsApart == UserFiles \cap Targets = {}
<1>1. ASSUME NEW f \in Fonts, NEW i \in DOMAIN FontPlaces(f)
      PROVE  FontPlaces(f)[i][1] \in {"SITE", "PARENT", "PARENT OUT"}
  BY FontFacts
<1>2. \A f \in UserFiles : f[1] \in {"SITE", "PARENT", "PARENT OUT", "IMG"}
  <2>1. \A f \in FontFiles : f[1] \in {"SITE", "PARENT", "PARENT OUT"}
    BY <1>1 DEF FontFiles
  <2> QED
    BY <2>1, Places, ZenonT(60) DEF UserFiles
<1>3. \A o \in Targets : o[1] \in {"OUT", "OUT IMG"}
  BY Places, ZenonT(60) DEF Targets
<1> QED
  BY <1>2, <1>3

(* No job reads what it or a later one writes. *)
Earlier == {AllJobs[i] : i \in 1 .. at - 1}
LEMMA ReadsNoLater ==
    ASSUME Choices, at \in DOMAIN AllJobs
    PROVE  /\ First \in AnyJob /\ First \in Jobs
           /\ \A k \in DOMAIN First.from : First.from[k] # First.to
           /\ Earlier \subseteq Jobs
           /\ \A j \in Earlier \ {First} :
                 /\ j.to # First.to
                 /\ \A k \in DOMAIN j.from : j.from[k] # First.to
<1>1. First \in AnyJob /\ First \in Jobs /\ at \in Nat /\ at <= Len(AllJobs)
  BY JobsAreJobs, JobNumbers DEF First, Jobs
<1>2. Earlier \subseteq Jobs
  <2>1. \A i \in 1 .. at - 1 : i \in DOMAIN AllJobs
    BY <1>1, JobNumbers
  <2> QED
    BY <2>1 DEF Earlier, Jobs
<1>3. Earlier \subseteq AnyJob
  BY <1>2, JobsAreJobs
<1>4. Out(CssName[theme]) # Out("THEME.CSS")
  BY Places, SamePlace, ThemeFacts DEF Choices
<1>5. \A k \in DOMAIN First.from : First.from[k] # First.to
  <2>1. SUFFICES ASSUME NEW k \in DOMAIN First.from, First.from[k] = First.to PROVE FALSE
    OBVIOUS
  <2>2. First.to[1] \in {"OUT", "OUT IMG"}
    BY <1>1, JobFacts
  <2>3. First.from[k] = Out(CssName[theme]) /\ First.to = Out("THEME.CSS")
    BY <1>1, <2>1, <2>2, JobFacts DEF OfUser
  <2> QED
    BY <1>4, <2>1, <2>3
<1>6. ASSUME NEW j \in Earlier \ {First} PROVE j.to # First.to
  BY <1>1, <1>3, <1>6, OneJobPerTarget
<1>7. ASSUME NEW j \in Earlier \ {First}, NEW k \in DOMAIN j.from, j.from[k] = First.to
      PROVE  FALSE
  <2>0. First.to[1] \in {"OUT", "OUT IMG"}
    BY <1>1, JobFacts
  <2>1. j = ActiveCss /\ First.to = Out(CssName[theme])
    BY <1>3, <1>7, <2>0, JobFacts DEF OfUser
  <2>2. First = CssJob(theme)
    <3>1. CssJob(theme) \in AnyJob /\ CssJob(theme).to = Out(CssName[theme])
      BY CssParts DEF AnyJob, Choices
    <3> QED
      BY <1>1, <2>1, <3>1, OneJobPerTarget
  <2>4. at > 4
    <3>1. PICK i \in 1 .. at - 1 : j = AllJobs[i]
      BY <1>7 DEF Earlier
    <3>2. i \in DOMAIN AllJobs /\ i < at
      BY <1>1, <3>1, JobNumbers
    <3>3. AllJobs[1].to # j.to /\ AllJobs[2].to # j.to /\ AllJobs[3].to # j.to
      <4>1. CssJob("vga") \in {CssJob(t) : t \in Themes} /\ CssJob("win98") \in {CssJob(t) : t \in Themes}
            /\ CssJob("crt") \in {CssJob(t) : t \in Themes}
        BY DEF Themes
      <4>2. \A t \in Themes : CssJob(t).to # j.to
        BY <2>1, CssParts, ActiveParts, ThemeFacts, SamePlace
      <4> QED
        BY <4>1, <4>2, JobNumbers
    <3>4. i # 1 /\ i # 2 /\ i # 3
      BY <3>1, <3>3
    <3> QED
      BY <1>1, <3>2, <3>4, JobNumbers
  <2>5. at = 5 \/ at = 6 \/ at = 7 \/ at = 8 \/ at \in 9 .. Len(AllJobs)
    BY <1>1, <2>4, JobNumbers
  <2>6. First.to # Out(CssName[theme])
    <3>1. First.to \in {Out(f) : f \in Fonts} \cup {Out("THEME.JS")}
                      \cup {OutPicture(p) : p \in Images}
      BY <2>5, JobNumbers, FontParts, ScriptParts, ImageParts DEF First, Fonts
    <3>2. CssName[theme] # "THEME.JS" /\ CssName[theme] \notin Fonts
      BY ThemeFacts DEF Choices
    <3>3. \A f : Out(f) = Out(CssName[theme]) => f = CssName[theme]
      BY SamePlace
    <3>4. CASE First.to = Out("THEME.JS")
      BY <3>2, <3>3, <3>4
    <3>5. CASE \E f \in Fonts : First.to = Out(f)
      BY <3>2, <3>3, <3>5
    <3>6. CASE \E p \in Images : First.to = OutPicture(p)
      <4>1. First.to[1] = "OUT IMG" /\ Out(CssName[theme])[1] = "OUT"
        BY <3>6, Places
      <4> QED
        BY <4>1
    <3> QED
      BY <3>1, <3>4, <3>5, <3>6
  <2> QED
    BY <2>1, <2>6
<1> QED
  BY <1>1, <1>2, <1>5, <1>6, <1>7

LEMMA SameChoices ==
    ASSUME UNCHANGED choices
    PROVE  AllJobs' = AllJobs /\ Jobs' = Jobs /\ Choices' = Choices
<1>1. theme' = theme /\ images' = images
  BY DEF choices
<1>2. ActiveCss' = ActiveCss
  BY <1>1 DEF ActiveCss
<1>3. FixedJobs' = FixedJobs
  BY <1>2 DEF FixedJobs
<1>4. AllJobs' = AllJobs
  BY <1>1, <1>3 DEF AllJobs
<1>5. Jobs' = Jobs
  BY <1>4 DEF Jobs
<1> QED
  BY <1>1, <1>4, <1>5 DEF Choices

-----------------------------------------------------------------------------
(* What is found, and what is needed.                                      *)

LEMMA FoundFacts ==
    ASSUME Choices, NEW j \in AnyJob
    PROVE  /\ \A f \in Found(j) : There(f) /\ \E k \in DOMAIN j.from : f = j.from[k]
           /\ \A f \in Found(j) : Wanted(j) = Holds(f)
<1>1. DOMAIN j.from = 1 .. Len(j.from) /\ Len(j.from) \in Nat
  BY JobFacts
<1>2. ASSUME NEW f \in Found(j), NEW g \in Found(j) PROVE f = g
  <2>1. PICK k \in DOMAIN j.from : /\ There(j.from[k]) /\ f = j.from[k]
                                   /\ \A m \in 1 .. k - 1 : ~There(j.from[m])
    BY <1>2 DEF Found
  <2>2. PICK n \in DOMAIN j.from : /\ There(j.from[n]) /\ g = j.from[n]
                                   /\ \A m \in 1 .. n - 1 : ~There(j.from[m])
    BY <1>2 DEF Found
  <2>3. k \in Nat /\ n \in Nat /\ k >= 1 /\ n >= 1
    BY <1>1
  <2>4. ~(k < n) /\ ~(n < k)
    BY <2>1, <2>2, <2>3
  <2> QED
    BY <2>1, <2>2, <2>3, <2>4
<1>3. \A f \in Found(j) : There(f) /\ \E k \in DOMAIN j.from : f = j.from[k]
  BY DEF Found
<1>4. ASSUME NEW f \in Found(j) PROVE Wanted(j) = Holds(f)
  <2>1. (CHOOSE g \in Found(j) : TRUE) \in Found(j)
    BY <1>4
  <2>2. (CHOOSE g \in Found(j) : TRUE) = f
    BY <1>2, <2>1
  <2>3. Wanted(j) = Holds(CHOOSE g \in Found(j) : TRUE)
    BY <1>4 DEF Wanted
  <2> QED
    BY <2>2, <2>3
<1> QED
  BY <1>3, <1>4

(* A target that is left alone is what its source or its text says. *)
LEMMA NotNeededIsDone ==
    ASSUME Choices, NEW j \in AnyJob, ~Needed(j)
    PROVE  Done(j)
<1>1. CASE Found(j) = {}
  <2>1. SUFFICES ASSUME j.text # None PROVE There(j.to) /\ Holds(j.to) = Wanted(j)
    BY <1>1 DEF Done
  <2>2. Holds(j.to) = j.text
    BY <1>1, <2>1 DEF Needed
  <2>3. NotThere.holds = "nothing"
    BY DEF NotThere
  <2>4. j.text # "nothing"
    BY JobFacts
  <2> QED
    BY <1>1, <2>2, <2>3, <2>4 DEF Wanted, There, Holds
<1>2. CASE Found(j) # {}
  <2>1. PICK f \in Found(j) : TRUE
    BY <1>2
  <2>2. Wanted(j) = Holds(f)
    BY FoundFacts
  <2> QED
    BY <2>1, <2>2 DEF Needed, Done
<1> QED
  BY <1>1, <1>2

(* A job whose sources are the same finds the same. *)
LEMMA SameSources ==
    ASSUME NEW j, DOMAIN j.from = 1 .. Len(j.from), Len(j.from) \in Nat,
           \A k \in DOMAIN j.from : disk'[j.from[k]] = disk[j.from[k]]
    PROVE  /\ Found(j)' = Found(j)
           /\ \A f \in Found(j) : disk'[f] = disk[f]
<1>1. \A k \in DOMAIN j.from : There(j.from[k])' <=> There(j.from[k])
  BY DEF There
<1>2. \A k \in DOMAIN j.from : \A m \in 1 .. k - 1 : m \in DOMAIN j.from
  OBVIOUS
<1>3. Found(j)' = Found(j)
  BY <1>1, <1>2 DEF Found
<1>4. \A f \in Found(j) : disk'[f] = disk[f]
  BY DEF Found
<1> QED
  BY <1>3, <1>4

(* A job no file of which is touched is as done and as needed as before. *)
Settled(j) == Done(j) /\ (~early => ~Needed(j))

LEMMA Untouched ==
    ASSUME Choices, NEW j \in AnyJob, disk'[j.to] = disk[j.to],
           \A k \in DOMAIN j.from : disk'[j.from[k]] = disk[j.from[k]]
    PROVE  /\ Found(j)' = Found(j)
           /\ Needed(j)' <=> Needed(j)
           /\ Done(j)' <=> Done(j)
           /\ (early => early') => (Settled(j) => Settled(j)')
<1>1. /\ Found(j)' = Found(j)
      /\ \A f \in Found(j) : disk'[f] = disk[f]
  BY JobFacts, SameSources
<1>2. Needed(j)' <=> Needed(j)
  BY <1>1 DEF Needed, There, Holds
<1>3. Wanted(j)' = Wanted(j)
  <2>1. CASE Found(j) = {}
    BY <1>1, <2>1 DEF Wanted
  <2>2. CASE Found(j) # {}
    <3>1. (CHOOSE g \in Found(j) : TRUE) \in Found(j)
      BY <2>2
    <3> QED
      BY <1>1, <2>2, <3>1 DEF Wanted, Holds
  <2> QED
    BY <2>1, <2>2
<1>4. Done(j)' <=> Done(j)
  BY <1>1, <1>3 DEF Done, There, Holds
<1> QED
  BY <1>1, <1>2, <1>4 DEF Settled

-----------------------------------------------------------------------------
(* The invariant.                                                          *)

(* The jobs the running build is through with. *)
Past == IF step = "copying" THEN Earlier \ {First} ELSE Earlier

NotYet == step # "idle" => ~settled
FromTheStart == step = "idle" => at = 1
HasToWrite == step = "copying" => Found(First) # {} \/ First.text # None
PastIsSettled == step # "idle" /\ ~cut => \A j \in Past : Settled(j)
AllIsSettled == settled => \A j \in Jobs : Settled(j)
NothingToDo == quiet /\ ~early => /\ changed = 0 /\ step # "copying"
                                  /\ step # "idle" => \A j \in Jobs : ~Needed(j)
CopiesInv ==
    CopiesTypeOK /\ NotYet /\ FromTheStart /\ HasToWrite /\ PastIsSettled /\ AllIsSettled /\ NothingToDo

(* What a typed state says of the number of the next job. *)
LEMMA AtFacts ==
    ASSUME CopiesTypeOK
    PROVE  /\ Choices /\ at \in Nat /\ at >= 1 /\ Len(AllJobs) \in Nat /\ Len(AllJobs) >= 8
           /\ step = "copying" => at \in DOMAIN AllJobs
           /\ AtJob => at \in DOMAIN AllJobs
           /\ changed \in Nat
<1>1. Choices
  BY DEF CopiesTypeOK, Choices
<1>2. Len(AllJobs) \in Nat /\ Len(AllJobs) >= 8 /\ DOMAIN AllJobs = 1 .. Len(AllJobs)
  BY <1>1, JobNumbers
<1>3. at \in 1 .. Len(AllJobs) + (IF step = "copying" THEN 0 ELSE 1) /\ changed \in Nat
  BY DEF CopiesTypeOK
<1> QED
  BY <1>1, <1>2, <1>3 DEF AtJob

LEMMA CopiesInit == CopyInit => CopiesInv
<1> SUFFICES ASSUME CopyInit PROVE CopiesInv
  OBVIOUS
<1>1. Choices
  BY DEF CopyInit, Choices
<1>2. Len(AllJobs) \in Nat
  BY <1>1, JobNumbers
<1>3. ASSUME NEW f \in DOMAIN disk, There(f)
      PROVE  disk[f].stamp \in Stamps /\ (f \in UserFiles => Holds(f) \in Contents)
  <2>1. disk[f] \in {NotThere} \cup {File(c, 0) : c \in Contents}
    BY DEF CopyInit
  <2>2. PICK c \in Contents : disk[f] = File(c, 0)
    BY <1>3, <2>1 DEF There
  <2>3. 0 \in Stamps
    BY CopyBoundsAssumption DEF Stamps
  <2> QED
    BY <2>2, <2>3 DEF File, Holds
<1>4. CopiesTypeOK
  BY <1>2, <1>3 DEF CopyInit, CopiesTypeOK
<1> QED
  BY <1>4 DEF CopyInit, CopiesInv, NotYet, FromTheStart, HasToWrite, PastIsSettled,
          AllIsSettled, NothingToDo

(* The types, where the disk and the choices are the same. *)
LEMMA SameDiskTyped ==
    ASSUME CopiesTypeOK, UNCHANGED <<disk, choices>>, clock' \in Stamps,
           step' \in {"idle", "next", "copying"}, changed' \in Nat,
           at' \in 1 .. Len(AllJobs) + (IF step' = "copying" THEN 0 ELSE 1),
           step' = "next" => changed' < at', step' = "copying" => changed' <= at'
    PROVE  CopiesTypeOK'
<1>1. AllJobs' = AllJobs
  BY SameChoices
<1>2. \A f \in DOMAIN disk' :
          There(f)' => disk'[f].stamp \in Stamps /\ (f \in UserFiles => Holds(f)' \in Contents)
  BY DEF CopiesTypeOK, There, Holds
<1> QED
  BY <1>1, <1>2 DEF CopiesTypeOK, choices

(* What is settled stays so where the disk and the choices are the same. *)
LEMMA SameDisk ==
    ASSUME CopiesTypeOK, UNCHANGED <<disk, choices>>, early' = early
    PROVE  \A j \in Jobs : (Settled(j)' <=> Settled(j)) /\ (Needed(j)' <=> Needed(j))
<1>1. Choices
  BY AtFacts
<1> SUFFICES ASSUME NEW j \in Jobs
             PROVE  (Settled(j)' <=> Settled(j)) /\ (Needed(j)' <=> Needed(j))
  OBVIOUS
<1>2. j \in AnyJob
  BY <1>1, JobsAreJobs
<1>3. (Needed(j)' <=> Needed(j)) /\ (Done(j)' <=> Done(j))
  BY <1>1, <1>2, Untouched
<1> QED
  BY <1>3 DEF Settled

LEMMA PastJobs == CopiesTypeOK => Past \subseteq Jobs /\ Earlier \subseteq Jobs
<1> SUFFICES ASSUME CopiesTypeOK PROVE Earlier \subseteq Jobs
  BY DEF Past
<1>1. DOMAIN AllJobs = 1 .. Len(AllJobs) /\ Len(AllJobs) \in Nat
  BY AtFacts, JobNumbers
<1>2. at \in Nat /\ at <= Len(AllJobs) + 1
  BY <1>1 DEF CopiesTypeOK
<1>3. \A i \in 1 .. at - 1 : i \in DOMAIN AllJobs
  BY <1>1, <1>2
<1> QED
  BY <1>3 DEF Earlier, Jobs

(* Where moreover the build is where it was, so is the invariant. *)
LEMMA StaysSettled ==
    ASSUME CopiesInv, CopiesTypeOK', UNCHANGED <<disk, choices>>, UNCHANGED <<at, step, changed>>,
           settled' = settled, quiet' = quiet, cut' = cut, early' = early
    PROVE  CopiesInv'
<1>0. CopiesTypeOK
  BY DEF CopiesInv
<1>1. AllJobs' = AllJobs /\ Jobs' = Jobs /\ Choices
  BY <1>0, SameChoices, AtFacts
<1>2. \A j \in Jobs : (Settled(j)' <=> Settled(j)) /\ (Needed(j)' <=> Needed(j))
  BY <1>0, SameDisk
<1>3. First' = First /\ Earlier' = Earlier /\ Past' = Past
  BY <1>1 DEF First, Earlier, Past
<1>4. HasToWrite'
  <2>1. SUFFICES ASSUME step = "copying" PROVE Found(First)' # {} \/ First'.text # None
    BY <1>3 DEF HasToWrite
  <2>2. at \in DOMAIN AllJobs
    BY <1>0, <2>1, AtFacts
  <2>3. First \in AnyJob
    BY <1>1, <2>2, ReadsNoLater
  <2>4. PICK j : j = First
    OBVIOUS
  <2>5. Found(j)' = Found(j)
    BY <1>1, <2>3, <2>4, Untouched
  <2>6. Found(First)' = Found(First)
    BY <1>3, <2>4, <2>5
  <2> QED
    BY <1>3, <2>1, <2>6 DEF CopiesInv, HasToWrite
<1>5. PastIsSettled'
  <2>1. SUFFICES ASSUME step # "idle", ~cut, NEW j \in Past PROVE Settled(j)'
    BY <1>3 DEF PastIsSettled
  <2>2. Settled(j)
    BY <2>1 DEF CopiesInv, PastIsSettled
  <2>3. j \in Jobs
    BY <1>0, PastJobs
  <2> QED
    BY <1>2, <2>2, <2>3
<1> QED
  BY <1>1, <1>2, <1>4, <1>5 DEF CopiesInv, NotYet, FromTheStart, AllIsSettled, NothingToDo

-----------------------------------------------------------------------------
(* The user's steps.                                                       *)

(* An edit is between builds, and ends what was settled. *)
LEMMA EditKeeps ==
    ASSUME CopiesInv, Edited, CopiesTypeOK'
    PROVE  CopiesInv'
BY DEF Edited, CopiesInv, NotYet, FromTheStart, HasToWrite, PastIsSettled,
          AllIsSettled, NothingToDo

LEMMA FileChangeTyped ==
    ASSUME CopiesTypeOK, Edited, UNCHANGED choices, NEW f \in UserFiles, NEW x,
           disk' = [disk EXCEPT ![f] = x],
           x # NotThere => x.stamp \in Stamps /\ x.holds \in Contents
    PROVE  CopiesTypeOK'
<1>1. AllJobs' = AllJobs
  BY SameChoices
<1>2. DOMAIN disk' = UserFiles \cup Targets
  BY DEF CopiesTypeOK
<1>3. ASSUME NEW g \in DOMAIN disk', There(g)'
      PROVE  disk'[g].stamp \in Stamps /\ (g \in UserFiles => Holds(g)' \in Contents)
  <2>1. f \in DOMAIN disk /\ g \in DOMAIN disk
    BY <1>2 DEF CopiesTypeOK
  <2>2. disk'[g] = IF g = f THEN x ELSE disk[g]
    BY <2>1
  <2> QED
    BY <1>3, <2>1, <2>2 DEF CopiesTypeOK, There, Holds
<1> QED
  BY <1>1, <1>2, <1>3 DEF Edited, CopiesTypeOK, choices

JobsAreMany == Len(AllJobs) \in Nat /\ Len(AllJobs) >= 8
LEMMA ManyJobs == Choices => JobsAreMany
BY JobNumbers DEF JobsAreMany

LEMMA ChoiceTyped ==
    ASSUME CopiesTypeOK, Edited, FromTheStart, UNCHANGED disk,
           theme' \in Themes, images' \in ImageLists
    PROVE  CopiesTypeOK'
<1>1. at = 1
  BY DEF Edited, FromTheStart
<1>2. Choices'
  BY DEF Choices
<1>3. JobsAreMany'
  BY <1>2, ManyJobs, PTL
<1>4. Len(AllJobs') \in Nat /\ Len(AllJobs') >= 8
  BY <1>3 DEF JobsAreMany
<1>5. \A f \in DOMAIN disk' :
          There(f)' => disk'[f].stamp \in Stamps /\ (f \in UserFiles => Holds(f)' \in Contents)
  BY DEF CopiesTypeOK, There, Holds
<1>6. at' \in 1 .. Len(AllJobs') + (IF step' = "copying" THEN 0 ELSE 1)
  BY <1>1, <1>4 DEF Edited
<1> QED
  BY <1>5, <1>6 DEF Edited, CopiesTypeOK

LEMMA UserKeeps == ASSUME CopiesInv, User PROVE CopiesInv'
<1>0. CopiesTypeOK /\ FromTheStart
  BY DEF CopiesInv
<1>1. ASSUME NEW f \in UserFiles, Delete(f) PROVE CopiesInv'
  <2>1. CopiesTypeOK'
    BY <1>0, <1>1, FileChangeTyped DEF Delete
  <2> QED
    BY <1>1, <2>1, EditKeeps DEF Delete
<1>2. ASSUME NEW f \in UserFiles, NEW c \in Contents, NEW t \in Stamps, Save(f, c, t)
      PROVE  CopiesInv'
  <2>1. File(c, t).stamp \in Stamps /\ File(c, t).holds \in Contents
    BY DEF File
  <2>2. CopiesTypeOK'
    BY <1>0, <1>2, <2>1, FileChangeTyped DEF Save
  <2> QED
    BY <1>2, <2>2, EditKeeps DEF Save
<1>3. ASSUME NEW t \in Themes, ChooseTheme(t) PROVE CopiesInv'
  <2>1. images \in ImageLists
    BY <1>0 DEF CopiesTypeOK
  <2>2. CopiesTypeOK'
    BY <1>0, <1>3, <2>1, ChoiceTyped DEF ChooseTheme
  <2> QED
    BY <1>3, <2>2, EditKeeps DEF ChooseTheme
<1>4. ASSUME NEW s \in ImageLists, NameImages(s) PROVE CopiesInv'
  <2>1. theme \in Themes
    BY <1>0 DEF CopiesTypeOK
  <2>2. CopiesTypeOK'
    BY <1>0, <1>4, <2>1, ChoiceTyped DEF NameImages
  <2> QED
    BY <1>4, <2>2, EditKeeps DEF NameImages
<1>5. ASSUME NEW t \in Stamps, SetClock(t) PROVE CopiesInv'
  <2>1. /\ UNCHANGED <<disk, choices>> /\ UNCHANGED <<at, step, changed>> /\ clock' \in Stamps
        /\ settled' = settled /\ quiet' = quiet /\ cut' = cut /\ early' = early
    BY <1>5 DEF SetClock, history
  <2>2. CopiesTypeOK'
    BY <1>0, <2>1, SameDiskTyped DEF CopiesTypeOK
  <2> QED
    BY <1>0, <2>1, <2>2, StaysSettled DEF CopiesInv
<1> QED
  BY <1>1, <1>2, <1>3, <1>4, <1>5 DEF User

-----------------------------------------------------------------------------
(* The steps of a build.                                                   *)

(* A build that gives up leaves the disk, and was not settled. *)
LEMMA GiveUpKeeps == ASSUME CopiesInv, GiveUp, step # "idle" PROVE CopiesInv'
<1>1. /\ CopiesTypeOK /\ UNCHANGED <<disk, choices>> /\ ~settled' /\ step' = "idle" /\ at' = 1
      /\ clock' = clock /\ changed' = changed /\ quiet' = quiet /\ early' = early
  BY DEF CopiesInv, GiveUp, NotYet, history
<1>2. CopiesTypeOK'
  <2>1. Len(AllJobs) \in Nat /\ changed \in Nat
    BY <1>1, AtFacts
  <2>2. clock \in Stamps
    BY <1>1 DEF CopiesTypeOK
  <2> QED
    BY <1>1, <2>1, <2>2, SameDiskTyped
<1> QED
  BY <1>1, <1>2
  DEF CopiesInv, NotYet, FromTheStart, HasToWrite, PastIsSettled, AllIsSettled, NothingToDo

LEMMA StartKeeps == ASSUME CopiesInv, StartBuild PROVE CopiesInv'
<1>1. /\ CopiesTypeOK /\ UNCHANGED <<disk, choices>> /\ step = "idle" /\ step' = "next"
      /\ at' = 1 /\ changed' = 0 /\ quiet' = settled /\ ~settled' /\ clock' = clock
      /\ early' = early
  BY DEF CopiesInv, StartBuild
<1>2. CopiesTypeOK'
  <2>1. Len(AllJobs) \in Nat /\ Len(AllJobs) >= 8 /\ clock \in Stamps
    BY <1>1, AtFacts DEF CopiesTypeOK
  <2> QED
    BY <1>1, <2>1, SameDiskTyped
<1>3. Past' = {}
  BY <1>1 DEF Past, Earlier
<1>4. ASSUME settled, ~early, NEW j \in Jobs PROVE ~Needed(j)'
  <2>1. ~Needed(j)
    BY <1>4 DEF CopiesInv, AllIsSettled, Settled
  <2> QED
    BY <1>1, <2>1, SameDisk
<1>5. Jobs' = Jobs
  BY <1>1, SameChoices
<1>6. NothingToDo'
  BY <1>1, <1>4, <1>5 DEF NothingToDo
<1> QED
  BY <1>1, <1>2, <1>3, <1>6
  DEF CopiesInv, NotYet, FromTheStart, HasToWrite, PastIsSettled, AllIsSettled

LEMMA DoneKeeps == ASSUME CopiesInv, CopiesDone PROVE CopiesInv'
<1>1. /\ CopiesTypeOK /\ UNCHANGED <<disk, choices>> /\ step = "next" /\ step' = "idle"
      /\ at' = 1 /\ changed' = changed /\ quiet' = quiet /\ settled' = ~cut /\ clock' = clock
      /\ early' = early /\ at > Len(AllJobs)
  BY DEF CopiesInv, CopiesDone
<1>2. CopiesTypeOK'
  <2>1. Len(AllJobs) \in Nat /\ Len(AllJobs) >= 8 /\ clock \in Stamps /\ changed \in Nat
    BY <1>1, AtFacts DEF CopiesTypeOK
  <2> QED
    BY <1>1, <2>1, SameDiskTyped
<1>3. Past = Jobs
  <2>1. DOMAIN AllJobs = 1 .. Len(AllJobs) /\ Len(AllJobs) \in Nat
    BY <1>1, AtFacts, JobNumbers
  <2>2. at = Len(AllJobs) + 1
    BY <1>1, <2>1 DEF CopiesTypeOK
  <2>3. 1 .. at - 1 = DOMAIN AllJobs
    BY <2>1, <2>2
  <2> QED
    BY <1>1, <2>3 DEF Past, Earlier, Jobs
<1>4. ASSUME ~cut, NEW j \in Jobs PROVE Settled(j)'
  <2>1. Settled(j)
    BY <1>1, <1>3, <1>4 DEF CopiesInv, PastIsSettled
  <2> QED
    BY <1>1, <2>1, SameDisk
<1>5. Jobs' = Jobs
  BY <1>1, SameChoices
<1>6. AllIsSettled'
  BY <1>1, <1>4, <1>5 DEF AllIsSettled
<1> QED
  BY <1>1, <1>2, <1>6
  DEF CopiesInv, NotYet, FromTheStart, HasToWrite, PastIsSettled, NothingToDo

(* Going on to the next job adds the first to those that are past. *)
LEMMA OneMore ==
    ASSUME CopiesTypeOK, UNCHANGED choices, at \in DOMAIN AllJobs, at' = at + 1, step' = "next"
    PROVE  Past' \subseteq (Earlier \ {First}) \cup {First}
<1>1. at \in Nat /\ AllJobs' = AllJobs
  BY AtFacts, SameChoices
<1>2. \A i \in 1 .. at' - 1 : i \in 1 .. at - 1 \/ i = at
  BY <1>1
<1> QED
  BY <1>1, <1>2 DEF Past, Earlier, First

LEMMA UpToDateKeeps == ASSUME CopiesInv, UpToDate PROVE CopiesInv'
<1>1. /\ CopiesTypeOK /\ UNCHANGED <<disk, choices>> /\ AtJob /\ ~Needed(First)
      /\ step = "next" /\ step' = "next" /\ at' = at + 1 /\ changed' = changed
      /\ quiet' = quiet /\ settled' = settled /\ clock' = clock /\ early' = early
      /\ cut' = cut /\ at \in DOMAIN AllJobs
  BY AtFacts DEF CopiesInv, UpToDate, Advance, history, AtJob
<1>2. CopiesTypeOK'
  <2>1. /\ Len(AllJobs) \in Nat /\ clock \in Stamps /\ changed \in Nat /\ at \in Nat
        /\ at >= 1 /\ at <= Len(AllJobs) /\ changed < at
    BY <1>1, AtFacts DEF CopiesTypeOK, AtJob
  <2> QED
    BY <1>1, <2>1, SameDiskTyped
<1>3. First \in Jobs /\ First \in AnyJob /\ Choices /\ Jobs' = Jobs
  BY <1>1, AtFacts, ReadsNoLater, SameChoices
<1>4. Settled(First)
  BY <1>1, <1>3, NotNeededIsDone DEF Settled
<1>5. PastIsSettled'
  <2>1. SUFFICES ASSUME ~cut, NEW j \in Past' PROVE Settled(j)'
    BY <1>1 DEF PastIsSettled
  <2>2. j \in Earlier \/ j = First
    BY <1>1, OneMore
  <2>3. Settled(j) /\ j \in Jobs
    BY <1>1, <1>3, <1>4, <2>1, <2>2, PastJobs DEF CopiesInv, PastIsSettled, Past
  <2> QED
    BY <1>1, <2>3, SameDisk
<1>6. NothingToDo'
  <2>1. SUFFICES ASSUME quiet, ~early PROVE changed = 0 /\ \A j \in Jobs : ~Needed(j)'
    BY <1>1, <1>3 DEF NothingToDo
  <2>2. changed = 0 /\ \A j \in Jobs : ~Needed(j)
    BY <1>1, <2>1 DEF CopiesInv, NothingToDo
  <2> QED
    BY <1>1, <2>2, SameDisk
<1> QED
  BY <1>1, <1>2, <1>5, <1>6 DEF CopiesInv, NotYet, FromTheStart, HasToWrite, AllIsSettled

(* Writing the first job's target leaves the jobs before it as they were. *)
LEMMA WritesApart ==
    ASSUME CopiesTypeOK, at \in DOMAIN AllJobs, NEW x, disk' = [disk EXCEPT ![First.to] = x]
    PROVE  /\ disk'[First.to] = x
           /\ \A k \in DOMAIN First.from : disk'[First.from[k]] = disk[First.from[k]]
           /\ \A j \in Earlier \ {First} :
                 /\ disk'[j.to] = disk[j.to]
                 /\ \A k \in DOMAIN j.from : disk'[j.from[k]] = disk[j.from[k]]
<1>1. Choices /\ DOMAIN disk = UserFiles \cup Targets
  BY AtFacts DEF CopiesTypeOK
<1>2. First \in AnyJob /\ Earlier \subseteq Jobs /\ Jobs \subseteq AnyJob
  BY <1>1, ReadsNoLater, JobsAreJobs
<1>3. First.to \in DOMAIN disk
  BY <1>1, <1>2, JobFacts
<1>4. \A f : f # First.to => disk'[f] = disk[f]
  BY <1>3
<1>5. disk'[First.to] = x
  BY <1>3
<1> QED
  BY <1>1, <1>4, <1>5, ReadsNoLater

LEMMA WriteTyped ==
    ASSUME CopiesTypeOK, at \in DOMAIN AllJobs, NEW c, disk' = [disk EXCEPT ![First.to] = File(c, clock)],
           UNCHANGED choices, clock' = clock,
           step' \in {"idle", "next", "copying"}, changed' \in Nat,
           at' \in 1 .. Len(AllJobs) + (IF step' = "copying" THEN 0 ELSE 1),
           step' = "next" => changed' < at', step' = "copying" => changed' <= at'
    PROVE  CopiesTypeOK'
<1>1. AllJobs' = AllJobs
  BY SameChoices
<1>2. DOMAIN disk' = DOMAIN disk
  OBVIOUS
<1>3. First.to \in Targets /\ First.to \in DOMAIN disk
  <2>1. First \in AnyJob /\ Choices
    BY AtFacts, ReadsNoLater
  <2> QED
    BY <2>1, JobFacts DEF CopiesTypeOK
<1>4. File(c, clock).stamp \in Stamps
  BY DEF File, CopiesTypeOK
<1>5. ASSUME NEW f \in DOMAIN disk', There(f)'
      PROVE  disk'[f].stamp \in Stamps /\ (f \in UserFiles => Holds(f)' \in Contents)
  <2>1. CASE f = First.to
    BY <1>3, <1>4, <2>1, TargetsApart
  <2>2. CASE f # First.to
    <3>1. disk'[f] = disk[f] /\ f \in DOMAIN disk
      BY <1>2, <2>2
    <3> QED
      BY <1>5, <3>1 DEF CopiesTypeOK, There, Holds
  <2> QED
    BY <2>1, <2>2
<1> QED
  BY <1>1, <1>2, <1>5 DEF CopiesTypeOK, choices

(* A build that was quiet has nothing to open; one that opens a target has *)
(* something to write to it.                                               *)
LEMMA OpenKeeps == ASSUME CopiesInv, OpenTarget PROVE CopiesInv'
<1>1. /\ CopiesTypeOK /\ UNCHANGED choices /\ AtJob /\ Needed(First)
      /\ disk' = [disk EXCEPT ![First.to] = File(Partial, clock)]
      /\ step = "next" /\ step' = "copying" /\ at' = at /\ changed' = changed + 1
      /\ quiet' = quiet /\ settled' = settled /\ clock' = clock /\ early' = early
      /\ cut' = cut /\ at \in DOMAIN AllJobs
  BY AtFacts DEF CopiesInv, OpenTarget, history, AtJob
<1>2. CopiesTypeOK'
  <2>1. /\ Len(AllJobs) \in Nat /\ changed \in Nat /\ at \in Nat
        /\ at >= 1 /\ at <= Len(AllJobs) /\ changed < at
    BY <1>1, AtFacts DEF CopiesTypeOK, AtJob
  <2>2. /\ at' \in 1 .. Len(AllJobs) + (IF step' = "copying" THEN 0 ELSE 1)
        /\ changed' \in Nat /\ changed' <= at' /\ step' # "next"
        /\ step' \in {"idle", "next", "copying"}
    BY <1>1, <2>1
  <2> QED
    BY <1>1, <2>2, WriteTyped
<1>3. First \in Jobs /\ First \in AnyJob /\ Choices
  BY <1>1, AtFacts, ReadsNoLater
<1>4. First' = First /\ Earlier' = Earlier /\ Past' = Earlier \ {First} /\ Past = Earlier
  BY <1>1, SameChoices DEF First, Earlier, Past
<1>5. HasToWrite'
  <2>1. Found(First) # {} \/ First.text # None
    BY <1>1 DEF Needed
  <2>2. PICK j : j = First
    OBVIOUS
  <2>3. DOMAIN j.from = 1 .. Len(j.from) /\ Len(j.from) \in Nat
    BY <1>3, <2>2, JobFacts
  <2>4. \A k \in DOMAIN j.from : disk'[j.from[k]] = disk[j.from[k]]
    BY <1>1, <2>2, WritesApart
  <2>5. Found(j)' = Found(j)
    BY <2>3, <2>4, SameSources
  <2>6. Found(First)' = Found(First)
    BY <1>4, <2>2, <2>5
  <2> QED
    BY <1>4, <2>1, <2>6 DEF HasToWrite
<1>6. ASSUME ~cut, NEW j \in Earlier \ {First} PROVE Settled(j)'
  <2>1. Settled(j)
    BY <1>1, <1>4, <1>6 DEF CopiesInv, PastIsSettled
  <2>2. j \in AnyJob
    BY <1>1, <1>3, <1>6, PastJobs, JobsAreJobs
  <2>3. disk'[j.to] = disk[j.to] /\ \A k \in DOMAIN j.from : disk'[j.from[k]] = disk[j.from[k]]
    BY <1>1, <1>6, WritesApart
  <2> QED
    BY <1>1, <1>3, <2>1, <2>2, <2>3, Untouched
<1>7. PastIsSettled'
  BY <1>1, <1>4, <1>6 DEF PastIsSettled
<1>8. ~(quiet /\ ~early)
  BY <1>1, <1>3 DEF CopiesInv, NothingToDo
<1> QED
  BY <1>1, <1>2, <1>5, <1>7, <1>8
  DEF CopiesInv, NotYet, FromTheStart, AllIsSettled, NothingToDo

(* The job that is written is settled. *)
LEMMA WrittenIsSettled ==
    ASSUME CopiesTypeOK, Complete, Found(First) # {} \/ First.text # None,
           at \in DOMAIN AllJobs, NEW j, j = First
    PROVE  Settled(j)'
<1>1. Choices /\ j \in AnyJob /\ clock \in Nat
  BY AtFacts, ReadsNoLater, CopyBoundsAssumption DEF CopiesTypeOK, Stamps
<1>2. disk' = [disk EXCEPT ![First.to] = File(Wanted(First), clock)]
  BY DEF Complete
<1>3. /\ disk'[j.to] = File(Wanted(j), clock)
      /\ \A k \in DOMAIN j.from : disk'[j.from[k]] = disk[j.from[k]]
  BY <1>2, WritesApart, ZenonT(60)
<1>4. Found(j)' = Found(j) /\ \A f \in Found(j) : disk'[f] = disk[f]
  BY <1>1, <1>3, JobFacts, SameSources
<1>5. \A f \in Found(j) : There(f) /\ f \in DOMAIN disk /\ Wanted(j) = Holds(f)
  <2>1. \A k \in DOMAIN j.from : j.from[k] \in DOMAIN disk
    BY <1>1, JobFacts DEF OfUser, CopiesTypeOK
  <2> QED
    BY <1>1, <2>1, FoundFacts
<1>6. Wanted(j)' = Wanted(j)
  <2>1. CASE Found(j) = {}
    BY <1>4, <2>1 DEF Wanted
  <2>2. CASE Found(j) # {}
    <3>1. (CHOOSE g \in Found(j) : TRUE) \in Found(j)
      BY <2>2
    <3> QED
      BY <1>4, <2>2, <3>1 DEF Wanted, Holds
  <2> QED
    BY <2>1, <2>2
<1>7. There(j.to)' /\ Holds(j.to)' = Wanted(j) /\ disk'[j.to].stamp = clock
  <2>1. /\ File(Wanted(j), clock) # NotThere
        /\ File(Wanted(j), clock).holds = Wanted(j) /\ File(Wanted(j), clock).stamp = clock
    <3>1. DOMAIN File(Wanted(j), clock) = {"holds", "stamp"} /\ DOMAIN NotThere = {"holds"}
      BY DEF File, NotThere
    <3> QED
      BY <3>1 DEF File
  <2> QED
    BY <1>3, <2>1 DEF There, Holds
<1>8. Done(j)'
  BY <1>6, <1>7 DEF Done
<1>9. ASSUME ~early' PROVE ~Needed(j)'
  <2>1. \A f \in Found(j) : ~(disk[f].stamp > clock)
    BY <1>9 DEF Complete
  <2>2. \A f \in Found(j) : disk[f].stamp \in Nat
    BY <1>5 DEF CopiesTypeOK, Stamps
  <2>3. \A f \in Found(j) : clock >= disk'[f].stamp /\ Holds(f)' = Wanted(j)
    BY <1>1, <1>4, <1>5, <2>1, <2>2 DEF Holds
  <2>4. Found(j) = {} => Wanted(j) = j.text
    BY DEF Wanted
  <2> QED
    BY <1>4, <1>7, <2>3, <2>4 DEF Needed
<1> QED
  BY <1>8, <1>9 DEF Settled

LEMMA CompleteKeeps == ASSUME CopiesInv, Complete PROVE CopiesInv'
<1>1. /\ CopiesTypeOK /\ UNCHANGED choices /\ step = "copying" /\ step' = "next"
      /\ disk' = [disk EXCEPT ![First.to] = File(Wanted(First), clock)]
      /\ at' = at + 1 /\ changed' = changed /\ quiet' = quiet /\ settled' = settled
      /\ clock' = clock /\ (early => early') /\ cut' = cut /\ at \in DOMAIN AllJobs
  BY AtFacts DEF CopiesInv, Complete, Advance
<1>2. CopiesTypeOK'
  <2>1. /\ Len(AllJobs) \in Nat /\ changed \in Nat /\ at \in Nat
        /\ at >= 1 /\ at <= Len(AllJobs) /\ changed <= at
    BY <1>1, AtFacts DEF CopiesTypeOK
  <2>2. /\ at' \in 1 .. Len(AllJobs) + (IF step' = "copying" THEN 0 ELSE 1)
        /\ changed' \in Nat /\ changed' < at' /\ step' # "copying"
        /\ step' \in {"idle", "next", "copying"}
    BY <1>1, <2>1
  <2> QED
    BY <1>1, <2>2, WriteTyped
<1>3. First \in Jobs /\ First \in AnyJob /\ Choices
  BY <1>1, AtFacts, ReadsNoLater
<1>4. Past = Earlier \ {First}
  BY <1>1 DEF Past
<1>5. ASSUME ~cut, NEW j \in Past' PROVE Settled(j)'
  <2>1. j \in Earlier \ {First} \/ j = First
    BY <1>1, <1>5, OneMore
  <2>2. CASE j = First
    BY <1>1, <2>2, WrittenIsSettled DEF CopiesInv, HasToWrite
  <2>3. CASE j \in Earlier \ {First}
    <3>1. Settled(j)
      BY <1>1, <1>4, <1>5, <2>3 DEF CopiesInv, PastIsSettled
    <3>2. j \in AnyJob
      BY <1>1, <1>3, <2>3, PastJobs, JobsAreJobs
    <3>3. disk'[j.to] = disk[j.to] /\ \A k \in DOMAIN j.from : disk'[j.from[k]] = disk[j.from[k]]
      BY <1>1, <2>3, WritesApart
    <3> QED
      BY <1>1, <1>3, <3>1, <3>2, <3>3, Untouched
  <2> QED
    BY <2>1, <2>2, <2>3
<1>6. PastIsSettled'
  BY <1>1, <1>5 DEF PastIsSettled
<1>7. ~(quiet /\ ~early)
  BY <1>1 DEF CopiesInv, NothingToDo
<1> QED
  BY <1>1, <1>2, <1>6, <1>7
  DEF CopiesInv, NotYet, FromTheStart, HasToWrite, AllIsSettled, NothingToDo

LEMMA FullDiskKeeps == ASSUME CopiesInv, FullDisk PROVE CopiesInv'
<1>1. /\ CopiesTypeOK /\ UNCHANGED <<disk, choices>> /\ step = "copying" /\ step' = "next"
      /\ at' = at + 1 /\ changed' = changed /\ quiet' = quiet /\ settled' = settled
      /\ clock' = clock /\ early' = early /\ cut' = TRUE /\ at \in DOMAIN AllJobs
  BY AtFacts DEF CopiesInv, FullDisk, Advance
<1>2. CopiesTypeOK'
  <2>1. /\ Len(AllJobs) \in Nat /\ changed \in Nat /\ at \in Nat /\ clock \in Stamps
        /\ at >= 1 /\ at <= Len(AllJobs) /\ changed <= at
    BY <1>1, AtFacts DEF CopiesTypeOK
  <2>2. /\ at' \in 1 .. Len(AllJobs) + (IF step' = "copying" THEN 0 ELSE 1)
        /\ changed' \in Nat /\ changed' < at' /\ step' # "copying"
        /\ step' \in {"idle", "next", "copying"} /\ clock' \in Stamps
    BY <1>1, <2>1
  <2> QED
    BY <1>1, <2>2, SameDiskTyped
<1>3. ~(quiet /\ ~early)
  BY <1>1 DEF CopiesInv, NothingToDo
<1> QED
  BY <1>1, <1>2, <1>3
  DEF CopiesInv, NotYet, FromTheStart, HasToWrite, PastIsSettled, AllIsSettled, NothingToDo

LEMMA CopiesStutter == ASSUME CopiesInv, UNCHANGED copyVars PROVE CopiesInv'
<1>1. /\ UNCHANGED <<disk, choices>> /\ UNCHANGED <<at, step, changed>> /\ clock' = clock
      /\ settled' = settled /\ quiet' = quiet /\ cut' = cut /\ early' = early
  BY DEF copyVars, history
<1>2. CopiesTypeOK
  BY DEF CopiesInv
<1>3. CopiesTypeOK'
  BY <1>1, <1>2, SameDiskTyped DEF CopiesTypeOK
<1> QED
  BY <1>1, <1>3, StaysSettled

LEMMA CopiesStep == ASSUME CopiesInv, [CopyNext]_copyVars PROVE CopiesInv'
<1>1. CASE User
  BY <1>1, UserKeeps
<1>2. CASE StartBuild
  BY <1>2, StartKeeps
<1>3. CASE UpToDate
  BY <1>3, UpToDateKeeps
<1>4. CASE OpenTarget
  BY <1>4, OpenKeeps
<1>5. CASE Complete
  BY <1>5, CompleteKeeps
<1>6. CASE BadImage
  BY <1>6, GiveUpKeeps DEF BadImage, AtJob
<1>7. CASE CopiesDone
  BY <1>7, DoneKeeps
<1>8. CASE Stop
  BY <1>8, GiveUpKeeps DEF Stop
<1>9. CASE FullDisk
  BY <1>9, FullDiskKeeps
<1>10. CASE UNCHANGED copyVars
  BY <1>10, CopiesStutter
<1> QED
  BY <1>1, <1>2, <1>3, <1>4, <1>5, <1>6, <1>7, <1>8, <1>9, <1>10
  DEF CopyNext, CopyBuild, CopyFault

LEMMA CopiesInvariant == CopySpec => []CopiesInv
BY CopiesInit, CopiesStep, PTL DEF CopySpec

-----------------------------------------------------------------------------
(* The files, the clock and the build's place are what they should be, and *)
(* no job of a build is counted twice.                                     *)
THEOREM CopiesAreTyped == CopySpec => []CopiesTypeOK
<1>1. CopiesInv => CopiesTypeOK
  BY DEF CopiesInv
<1> QED
  BY <1>1, CopiesInvariant, PTL

(* After a whole build every style sheet, font, script and image is what   *)
(* its source, or its default text, says: whatever was left half copied by *)
(* an earlier build, and however the stamps and the clock run.             *)
THEOREM BuildsLeaveCurrentCopies == CopySpec => []CopiesAreCurrent
<1>1. CopiesInv => CopiesAreCurrent
  BY DEF CopiesInv, AllIsSettled, Settled, CopiesAreCurrent
<1> QED
  BY <1>1, CopiesInvariant, PTL

(* A build after a whole one, with no edit and no fault between, copies    *)
(* nothing, unless a source was stamped ahead of the clock.                *)
THEOREM RebuildsAreQuiet == CopySpec => []QuietRebuild
<1>1. CopiesInv => QuietRebuild
  BY DEF CopiesInv, NothingToDo, QuietRebuild
<1> QED
  BY <1>1, CopiesInvariant, PTL
=============================================================================
