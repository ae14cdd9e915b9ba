---------------------------- MODULE PrintSettings ----------------------------
(***************************************************************************)
(* The print settings of a job: what an assignment must say to be taken    *)
(* (app/protocol.py), what is made of it (app/models.py), what the worker  *)
(* fails a job for, and the options lp gets (app/cups_options.py,          *)
(* app/page_range.py).                                                     *)
(*                                                                         *)
(* A value that int() takes is its integer, any other that of Ill.  A page *)
(* range is the segments of its text; a single page is a segment of one.   *)
(***************************************************************************)
EXTENDS Integers, Sequences

\* Values int() refuses: with a ValueError, and with a TypeError (null, a list).
Ill == {"text", "null"}

Segments == [first : Nat, last : Nat]
NoPages  == [kind |-> "absent", segments |-> <<>>]

\* "all" and a blank text choose every page; "typed" is not a string, "malformed" not
\* of the form of a range.
PageRanges ==
  {NoPages} \cup
  [kind : {"blank", "all", "typed", "malformed"}, segments : {<<>>}] \cup
  [kind : {"pages"}, segments : Seq(Segments) \ {<<>>}]

\* print_settings as the backend sends them; a missing key counts as its default.
RawSettings ==
  [copies : Int \cup Ill, page_range : PageRanges, color_mode : STRING, paper_size : STRING,
   duplex : BOOLEAN, pages_per_sheet : Int \cup Ill, order : STRING, orientation : STRING,
   fit_to_page : BOOLEAN]

\* PrintSettings.from_dict does not raise.
Settings == {s \in RawSettings : s.copies \in Int /\ s.pages_per_sheet \in Int}

\* validate_page_range raises nothing.
RangeOK(r) ==
  \/ r.kind \in {"absent", "blank", "all"}
  \/ /\ r.kind = "pages"
     /\ \A i \in DOMAIN r.segments :
          1 <= r.segments[i].first /\ r.segments[i].first <= r.segments[i].last

\* assigned_job_from_message, as to the settings: it takes the assignment, raises a
\* ValueError and the assignment is dropped, or a TypeError and the session ends.
Reception(s) ==
  IF s.copies \notin 1..99 \/ ~RangeOK(s.page_range) THEN "dropped"
  ELSE IF s.pages_per_sheet = "text" THEN "dropped"
  ELSE IF s.pages_per_sheet = "null" THEN "session ends"
  ELSE "taken"

\* validate_print_settings raises nothing.
Valid(s) ==
  /\ s.copies \in 1..99 /\ s.pages_per_sheet \in 1..16
  /\ s.color_mode \in {"bw", "color"}
  /\ s.order \in {"normal", "reverse"}
  /\ s.orientation \in {"auto", "portrait", "landscape"}
  /\ RangeOK(s.page_range)

\* What each option would say.
Values(s) ==
  [copies |-> s.copies,
   media |-> s.paper_size,
   print_color_mode |-> IF s.color_mode = "bw" THEN "monochrome" ELSE "color",
   sides |-> IF s.duplex THEN "two-sided-long-edge" ELSE "one-sided",
   number_up |-> s.pages_per_sheet,
   orientation_requested |-> IF s.orientation = "portrait" THEN 3 ELSE 4,
   fit_to_page |-> IF s.fit_to_page THEN "true" ELSE "false",
   outputorder |-> IF s.order = "reverse" THEN "reverse" ELSE "normal",
   page_ranges |-> s.page_range.segments]

\* Options that are left out: lp prints one copy, of all pages, if nothing is said.
LeftOut(s) ==
  {o \in {"copies"} : s.copies <= 1}
  \cup {o \in {"media"} : s.paper_size = ""}
  \cup {o \in {"number_up"} : s.pages_per_sheet <= 1}
  \cup {o \in {"orientation_requested"} : s.orientation \notin {"portrait", "landscape"}}
  \cup {o \in {"page_ranges"} : s.page_range.kind # "pages"}

\* build_lp_argv with build_lp_options, but for the printer, the title and the file.
LpArgv(s) == [o \in DOMAIN Values(s) \ LeftOut(s) |-> Values(s)[o]]

=============================================================================
