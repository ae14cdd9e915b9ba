------------------------ MODULE PrintSettingsProofs ------------------------
(***************************************************************************)
(* Theorems about PrintSettings, for every print settings there are.       *)
(***************************************************************************)
EXTENDS PrintSettings, TLAPS

\* An assignment that is taken has settings the worker can read, and the worker fails
\* its job only for what the reception does not look at: the pages per sheet, the
\* colour, the order or the orientation.
THEOREM LateRefusals ==
  ASSUME NEW s \in RawSettings, Reception(s) = "taken"
  PROVE  /\ s \in Settings
         /\ Valid(s) <=> /\ s.pages_per_sheet \in 1..16
                         /\ s.color_mode \in {"bw", "color"}
                         /\ s.order \in {"normal", "reverse"}
                         /\ s.orientation \in {"auto", "portrait", "landscape"}
<1>1. s.copies \in 1..99 /\ RangeOK(s.page_range) /\ s.pages_per_sheet \notin Ill
  BY DEF Reception, Ill
<1>2. s.pages_per_sheet \in Int \cup Ill
  BY DEF RawSettings
<1> QED
  BY <1>1, <1>2 DEF Valid, Settings

-----------------------------------------------------------------------------
(* The options of lp.                                                        *)

\* The settings print alike.
Alike(s, t) ==
  /\ s.copies = t.copies /\ s.pages_per_sheet = t.pages_per_sheet
  /\ s.color_mode = t.color_mode /\ s.duplex = t.duplex /\ s.paper_size = t.paper_size
  /\ s.order = t.order /\ s.orientation = t.orientation /\ s.fit_to_page = t.fit_to_page
  /\ s.page_range.segments = t.page_range.segments

\* What lp gets, equal for two settings, is so option by option.
LEMMA SameOption ==
  ASSUME NEW s, NEW t, LpArgv(s) = LpArgv(t), NEW o \in DOMAIN Values(s)
  PROVE  /\ o \in LeftOut(s) <=> o \in LeftOut(t)
         /\ o \notin LeftOut(s) => Values(s)[o] = Values(t)[o]
<1>1. DOMAIN Values(s) = DOMAIN Values(t)
  BY DEF Values
<1>2. DOMAIN LpArgv(s) = DOMAIN Values(s) \ LeftOut(s) /\ DOMAIN LpArgv(t) = DOMAIN Values(t) \ LeftOut(t)
  BY DEF LpArgv
<1>3. o \in LeftOut(s) <=> o \in LeftOut(t)
  BY <1>1, <1>2
<1>4. ASSUME o \notin LeftOut(s)
      PROVE  LpArgv(s)[o] = Values(s)[o] /\ LpArgv(t)[o] = Values(t)[o]
  BY <1>1, <1>3, <1>4 DEF LpArgv
<1> QED
  BY <1>3, <1>4

\* When each is left out.
LEMMA LeftOutIs ==
  ASSUME NEW s
  PROVE  /\ "copies" \in LeftOut(s) <=> s.copies <= 1
         /\ "media" \in LeftOut(s) <=> s.paper_size = ""
         /\ "number_up" \in LeftOut(s) <=> s.pages_per_sheet <= 1
         /\ "orientation_requested" \in LeftOut(s) <=> s.orientation \notin {"portrait", "landscape"}
         /\ "page_ranges" \in LeftOut(s) <=> s.page_range.kind # "pages"
         /\ LeftOut(s) \cap {"print_color_mode", "sides", "fit_to_page", "outputorder"} = {}
BY DEF LeftOut

LEMMA OptionsAre ==
  ASSUME NEW s
  PROVE  DOMAIN Values(s) = {"copies", "media", "print_color_mode", "sides", "number_up",
                             "orientation_requested", "fit_to_page", "outputorder", "page_ranges"}
BY DEF Values

\* What lp gets tells valid settings apart: none of them is lost on the way or taken
\* for another, but that a blank page range, "all" and none at all are the same.
THEOREM OptionsTellAll ==
  ASSUME NEW s \in Settings, NEW t \in Settings, Valid(s), Valid(t), LpArgv(s) = LpArgv(t)
  PROVE  Alike(s, t)
<1>1. \A o \in DOMAIN Values(s) :
        /\ o \in LeftOut(s) <=> o \in LeftOut(t)
        /\ o \notin LeftOut(s) => Values(s)[o] = Values(t)[o]
  BY SameOption
<1>2. s.copies = t.copies
  <2>1. /\ s.copies <= 1 <=> t.copies <= 1
        /\ ~(s.copies <= 1) => Values(s).copies = Values(t).copies
    BY <1>1, LeftOutIs, OptionsAre
  <2> QED
    BY <2>1 DEF Valid, Values
<1>3. s.pages_per_sheet = t.pages_per_sheet
  <2>1. /\ s.pages_per_sheet <= 1 <=> t.pages_per_sheet <= 1
        /\ ~(s.pages_per_sheet <= 1) => Values(s).number_up = Values(t).number_up
    BY <1>1, LeftOutIs, OptionsAre
  <2> QED
    BY <2>1 DEF Valid, Values
<1>4. s.paper_size = t.paper_size
  <2>1. s.paper_size # "" \/ t.paper_size # "" => Values(s).media = Values(t).media
    BY <1>1, LeftOutIs, OptionsAre
  <2> QED
    BY <2>1 DEF Values
<1>5. /\ Values(s).print_color_mode = Values(t).print_color_mode /\ Values(s).sides = Values(t).sides
      /\ Values(s).fit_to_page = Values(t).fit_to_page /\ Values(s).outputorder = Values(t).outputorder
  BY <1>1, LeftOutIs, OptionsAre
<1>6. s.color_mode = t.color_mode /\ s.order = t.order
  BY <1>5 DEF Values, Valid
<1>7. s.duplex = t.duplex /\ s.fit_to_page = t.fit_to_page
  BY <1>5 DEF Values, Settings, RawSettings
<1>8. s.orientation = t.orientation
  <2>1. /\ s.orientation \in {"portrait", "landscape"} <=> t.orientation \in {"portrait", "landscape"}
        /\ s.orientation \in {"portrait", "landscape"} =>
             Values(s).orientation_requested = Values(t).orientation_requested
    BY <1>1, LeftOutIs, OptionsAre
  <2> QED
    BY <2>1 DEF Valid, Values
<1>9. s.page_range.segments = t.page_range.segments
  <2>1. s.page_range.kind = "pages" \/ t.page_range.kind = "pages" =>
          Values(s).page_ranges = Values(t).page_ranges
    BY <1>1, LeftOutIs, OptionsAre
  <2>2. \A r \in PageRanges : r.kind = "pages" \/ r.segments = <<>>
    BY DEF PageRanges, NoPages
  <2>3. s.page_range \in PageRanges /\ t.page_range \in PageRanges
    BY DEF Settings, RawSettings
  <2> QED
    BY <2>1, <2>2, <2>3 DEF Values
<1> QED
  BY <1>2, <1>3, <1>4, <1>6, <1>7, <1>8, <1>9 DEF Alike

=============================================================================
