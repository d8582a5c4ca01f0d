------------------------------- MODULE PageOcr -------------------------------
(***************************************************************************)
(* parse_pdf: what a page's text is taken from.  A plan sends pages to the *)
(* local worker or to the model, caches answer for pages seen before, a    *)
(* model that fails leaves its page to the local worker, and each page is  *)
(* assembled from what came back and from its own text and tables.  The    *)
(* same document is parsed again, under other settings, over the caches    *)
(* the earlier parses left in its directory.                               *)
(*                                                                         *)
(*   doc      what each page of the PDF looks like                         *)
(*   req      the settings of this parse: its request, its profile, and    *)
(*            the model that is configured                                 *)
(*   at       idle, local, llm, fallback, assemble, regions, parsed        *)
(*   plan     the pages to transcribe, locally and by the model, and       *)
(*            whether the regions of the profile are read again            *)
(*   got      local_ocr_results, llm_ocr_results, and what the regions     *)
(*            were read as                                                 *)
(*   pages    the PageContent of each page                                 *)
(*   cache    the page and region entries under .cache                     *)
(*   made     what the local worker ever transcribed (history)             *)
(***************************************************************************)
EXTENDS Integers, FiniteSets

CONSTANTS
    Pages,
    Looks,           \* what a page may look like
    Requests,        \* the settings a parse may run under
    MaxTables,       \* max_tables_per_page
    MaxParses,
    None

VARIABLES doc, req, at, plan, got, pages, cache, made, parses
vars == <<doc, req, at, plan, got, pages, cache, made, parses>>

(* A text: who produced it, how it was keyed, how many tables it holds, and        *)
(* whether its layout came with it.  A page no backend answered for has None.      *)
Text(by, key, tables, blocks) == [by |-> by, key |-> key, tables |-> tables, blocks |-> blocks]
Marker == Text("marker", None, 0, FALSE)
Blank(key) == Text("blank", key, 0, FALSE)
(* What the model is asked for: a text of this model, proofread as the plan says.  *)
ModelOf(r) == <<r.model, r.proofread \/ r.pages # {} \/ r.force>>

(* None is no text, whoever wrote it and for whatever settings; the pages a        *)
(* request names are pages of the document.                                        *)
Texts(keys) ==
    [by : {"marker", "blank", "local", "llm", "region"}, key : keys,
     tables : {0} \cup {look.tables : look \in Looks}, blocks : BOOLEAN]
PageOcrAssumption ==
    /\ MaxTables \in Nat /\ \A look \in Looks : look.tables \in Nat
    /\ None \notin Texts({None}) /\ None \notin Texts({r.backend : r \in Requests})
    /\ None \notin Texts({ModelOf(r) : r \in Requests})
    /\ \A r \in Requests : r.pages \subseteq Pages

Usable(t) == t # None /\ t.by \in {"local", "llm"}
NoResults == [p \in Pages |-> None]

Init ==
    /\ doc \in [Pages -> Looks]
    /\ req = None
    /\ at = "idle"
    /\ plan = [local |-> {}, llm |-> {}, regions |-> FALSE]
    /\ got = [local |-> NoResults, llm |-> NoResults, region |-> NoResults]
    /\ pages = NoResults
    /\ cache = {}
    /\ made = {}
    /\ parses = 0

-----------------------------------------------------------------------------
(* _assess_contract_quality, with the ratios of the default policy in percent.     *)
Looking(feature) == {p \in Pages : doc[p][feature]}
Reaches(percent, S) == 100 * Cardinality(S) >= percent * Cardinality(Pages)
Poor == Reaches(85, Looking("scan")) \/ Reaches(20, Looking("sparse"))

(* _plan_pdf_ocr.  Pages the request names, or a forced parse, go to the model; a  *)
(* full parse sends it every page; a fast or an accurate one has the problem pages *)
(* of a poor document transcribed locally, or by the model when there is no local  *)
(* worker.  A blank page is left alone unless it is named.                         *)
Plan(r) ==
    LET blank == Looking("blank")
        scan == Looking("scan")
        sparse == Looking("sparse")
        suspect == (IF scan # {} THEN scan ELSE IF sparse # {} THEN sparse ELSE Looking("image")) \ blank
        named == r.pages # {}
        forced == ~named /\ r.force
        full == ~named /\ ~r.force /\ r.mode = "full"
        problem == Poor /\ r.mode # "full" /\ ~forced
        llm == IF named THEN r.pages
               ELSE IF forced /\ suspect # {} THEN suspect
               ELSE IF forced \/ full THEN Pages \ blank ELSE {}
        local == IF problem THEN (scan \cup sparse) \ blank ELSE {}
        moved == IF r.enabled THEN {} ELSE local
    IN [llm |-> llm \cup moved,
        local |-> local \ (llm \cup moved),
        regions |-> r.regions /\ moved = {} /\ (full \/ (problem /\ r.mode = "accurate"))]

(* The pages too large to render leave the plan.                                   *)
Rendered(pl) == [pl EXCEPT !.local = {p \in @ : "local" \in doc[p].fits},
                           !.llm = {p \in @ : "llm" \in doc[p].fits}]

(* llm_ocr_cache_key: the model, and whether its text is proofread.  The key used  *)
(* to be the image alone.                                                          *)
KeyOfTheImage(r) == <<"any", TRUE>>
LlmKey(r) == <<r.model, r.proofread \/ r.pages # {} \/ r.force>>

Entry(kind, key, p, text) == [kind |-> kind, key |-> key, page |-> p, text |-> text]
Entries(kind, key, p) == {e \in cache : e.kind = kind /\ e.key = key /\ e.page = p}
Hit(kind, key, p) == Entries(kind, key, p) # {}
Cached(kind, key, p) == (CHOOSE e \in Entries(kind, key, p) : TRUE).text
Store(entries) == cache' = {e \in cache : \A n \in entries : <<e.kind, e.key, e.page>> # <<n.kind, n.key, n.page>>}
                           \cup entries

(* The page loop of a parse: a cached page has its result.                         *)
Parse(r) ==
    /\ at \in {"idle", "parsed"} /\ parses < MaxParses
    /\ LET pl == Rendered(Plan(r)) IN
       /\ plan' = pl
       /\ got' = [local |-> [p \in Pages |-> IF p \in pl.local /\ Hit("local", r.backend, p)
                                             THEN Cached("local", r.backend, p) ELSE None],
                  llm |-> [p \in Pages |-> IF p \in pl.llm /\ Hit("llm", LlmKey(r), p)
                                           THEN Cached("llm", LlmKey(r), p) ELSE None],
                  region |-> NoResults]
    /\ req' = r
    /\ at' = "local"
    /\ pages' = NoResults
    /\ parses' = parses + 1
    /\ UNCHANGED <<doc, cache, made>>

-----------------------------------------------------------------------------
(* What a backend may make of a page.  A local backend of none makes nothing; only *)
(* some pages have tables a backend can see.                                       *)
LocalTexts(p) ==
    IF req.backend = "none" THEN {Blank(None)}
    ELSE {Marker} \cup {Text("local", req.backend, doc[p].tables, blocks) : blocks \in BOOLEAN}
LlmTexts(p) ==
    {Marker, Blank(ModelOf(req))} \cup {Text("llm", ModelOf(req), n, FALSE) : n \in {0, doc[p].tables}}

(* A pool over its tasks: the pages end in any order, and each writes its own      *)
(* result and its own cache entry.                                                 *)
Locally(S, texts) ==
    /\ got' = [got EXCEPT !.local = [p \in Pages |-> IF p \in S THEN texts[p] ELSE @[p]]]
    /\ made' = made \cup {<<p, texts[p]>> : p \in S}
    /\ Store(IF req.keep THEN {Entry("local", req.backend, p, texts[p]) : p \in {q \in S : texts[q] # Marker}}
             ELSE {})

Results(S, may) == {f \in [S -> UNION {may[p] : p \in S}] : \A p \in S : f[p] \in may[p]}

LocalPages ==
    /\ at = "local"
    /\ LET S == {p \in plan.local : got.local[p] = None} IN
       \E texts \in Results(S, [p \in S |-> LocalTexts(p)]) : Locally(S, texts)
    /\ at' = "llm"
    /\ UNCHANGED <<doc, req, plan, pages, parses>>

LlmTasks == {p \in plan.llm : got.llm[p] = None}
LlmPages ==
    /\ at = "llm"
    /\ \E texts \in Results(LlmTasks, [p \in LlmTasks |-> LlmTexts(p)]) :
          /\ got' = [got EXCEPT !.llm = [p \in Pages |-> IF p \in LlmTasks THEN texts[p] ELSE @[p]]]
          /\ Store({Entry("llm", LlmKey(req), p, texts[p]) : p \in {q \in LlmTasks : texts[q] # Marker}})
    /\ at' = "fallback"
    /\ UNCHANGED <<doc, req, plan, pages, made, parses>>

(* A page the model gave no text for goes to the local worker, when it looks like  *)
(* a scan or is sparse: from the cache, or transcribed now.                        *)
Unread == {p \in plan.llm : ~Usable(got.llm[p]) /\ ~Usable(got.local[p])}
ToLocal ==
    IF req.enabled THEN {p \in Unread \cap (Looking("scan") \cup Looking("sparse")) : "local" \in doc[p].fits}
    ELSE {}
Fallback ==
    /\ at = "fallback"
    /\ LET hits == {p \in ToLocal : Hit("local", req.backend, p)}
           may == [p \in ToLocal |-> IF p \in hits THEN {Cached("local", req.backend, p)}
                                     ELSE LocalTexts(p)] IN
       \E texts \in Results(ToLocal, may) : Locally(ToLocal, texts)
    /\ at' = "assemble"
    /\ UNCHANGED <<doc, req, plan, pages, parses>>

-----------------------------------------------------------------------------
(* What the page says without OCR: the first tables are listed, and the body keeps *)
(* the rest of them, or all of them when their text could not be cut out.          *)
Least(i, j) == IF i < j THEN i ELSE j
Listed(p) == Least(doc[p].tables, MaxTables)
Inline(p) == IF doc[p].strips THEN doc[p].tables - Listed(p) ELSE doc[p].tables
NativeText(p) == doc[p].text \/ Inline(p) > 0

(* The text of the model, unless it failed where the local worker did not; blank   *)
(* text counts for none.                                                           *)
Says(t) == t # None /\ t.by # "blank"
EnhancedByTheFirst(p) ==
    IF Says(got.llm[p]) THEN got.llm[p] ELSE IF Says(got.local[p]) THEN got.local[p] ELSE None
Enhanced(p) ==
    LET llm == got.llm[p]
        local == got.local[p]
    IN IF Says(llm) /\ ~(llm = Marker /\ Usable(local)) THEN llm
       ELSE IF Says(local) THEN local ELSE None

(* from: whose text the body is.  listed, inline: the tables on file and those     *)
(* left in the body.                                                               *)
Page(from, listed, inline) == [from |-> from, listed |-> listed, inline |-> inline]

(* _extract_tables_from_ocr_text: the tables of a transcription, the first of them *)
(* listed and the rest put back in the body.                                       *)
Transcribed(text) == Page(text.by, Least(text.tables, MaxTables),
                          text.tables - Least(text.tables, MaxTables))

(* A failed enhancement leaves the page its own text, and the marker only where    *)
(* there is none; a page whose OCR shows no table keeps the tables it had.         *)
Content(p) ==
    LET text == Enhanced(p) IN
    CASE text = None -> Page("native", Listed(p), Inline(p))
      [] text # None /\ Usable(text) /\ text.tables > 0 -> Transcribed(text)
      [] text # None /\ Usable(text) /\ text.tables = 0 -> Page(text.by, Listed(p), 0)
      [] OTHER -> Page(IF NativeText(p) THEN "native" ELSE "marker", Listed(p), Inline(p))

Assemble ==
    /\ at = "assemble"
    /\ pages' = [p \in Pages |-> Content(p)]
    /\ at' = IF plan.regions THEN "regions" ELSE "parsed"
    /\ UNCHANGED <<doc, req, plan, got, cache, made, parses>>

(* _apply_field_focused_ocr: the region of a page where the profile finds its      *)
(* label is transcribed by the model again, and takes the place of the body and    *)
(* the tables.  What is cached is keyed by the image alone, and is whatever came   *)
(* back.                                                                           *)
RegionPages == Looking("field")
RegionTexts(p) ==
    IF req.keepRegions /\ Hit("region", None, p) THEN {Cached("region", None, p)}
    ELSE {Marker, Blank(ModelOf(req)), Text("region", ModelOf(req), 0, FALSE)}
Regions ==
    /\ at = "regions"
    /\ \E texts \in Results(RegionPages, [p \in RegionPages |-> RegionTexts(p)]) :
          /\ got' = [got EXCEPT !.region = [p \in Pages |-> IF p \in RegionPages THEN texts[p] ELSE None]]
          /\ pages' = [p \in Pages |->
                          IF p \in RegionPages /\ texts[p].by = "region" THEN Page("region", 0, 0)
                          ELSE pages[p]]
          /\ Store(IF req.keepRegions
                   THEN {Entry("region", None, p, texts[p]) : p \in {q \in RegionPages : Says(texts[q])}}
                   ELSE {})
    /\ at' = "parsed"
    /\ UNCHANGED <<doc, req, plan, made, parses>>

Next ==
    \/ \E r \in Requests : Parse(r)
    \/ LocalPages \/ LlmPages \/ Fallback \/ Assemble \/ Regions

Spec == Init /\ [][Next]_vars

-----------------------------------------------------------------------------
Assembled == {p \in Pages : at \in {"regions", "parsed"} /\ pages[p].from # "region"}

(* A page whose OCR counts as done carries OCR text, and one reported as failed    *)
(* does not (ocr_failed_pages); the failure marker is the text of a page only      *)
(* where nothing else is, and never for a scan the local worker was not asked for. *)
Succeeded(p) == Usable(got.llm[p]) \/ Usable(got.local[p])
PagesAreHonest ==
    \A p \in Assembled :
        /\ p \in plan.local \cup plan.llm => (Succeeded(p) <=> pages[p].from \in {"local", "llm"})
        /\ pages[p].from = "marker" =>
              /\ ~NativeText(p) /\ ~Succeeded(p)
              /\ req.enabled /\ (doc[p].scan \/ doc[p].sparse) /\ "local" \in doc[p].fits =>
                    got.local[p] # None

(* However OCR ends, a page that keeps its own text keeps its tables too: those    *)
(* not on file are in the body.                                                    *)
TablesKept ==
    \A p \in Assembled :
        pages[p].from \in {"native", "marker"} => pages[p].listed + pages[p].inline >= doc[p].tables

(* A page is served from a cache only with what the settings of this parse would   *)
(* have produced: the same model, proofread alike; and a page read locally comes   *)
(* back as the worker left it, with its layout.                                    *)
CacheOfItsSettings ==
    \A p \in Pages :
        /\ got.llm[p] # None => got.llm[p].key \in {ModelOf(req), None}
        /\ got.local[p] # None => <<p, got.local[p]>> \in made

(* The text a region is given is that of the model that is configured, as for a    *)
(* page (llm_ocr_cache_key).                                                       *)
RegionOfItsModel ==
    \A p \in Pages :
        got.region[p] # None /\ got.region[p].by = "region" => got.region[p].key = ModelOf(req)
=============================================================================
