---------------------------- MODULE ReportsProofs ----------------------------
(***************************************************************************)
(* Proofs about Reports, for every set of exporters and campaigns, every   *)
(* set of tables and every bound on what is exported.                      *)
(***************************************************************************)
EXTENDS Reports, CampaignProofs, SequenceTheorems

\* A sequence with an element before and one behind it.
LEMMA Enclosed ==
    ASSUME NEW S, NEW a \in S, NEW b \in S, NEW s \in Seq(S)
    PROVE  /\ <<a>> \o s \o <<b>> \in Seq(S)
           /\ Len(<<a>> \o s \o <<b>>) = Len(s) + 2 /\ Len(s) \in Nat
           /\ (<<a>> \o s \o <<b>>)[1] = a
<1>1. <<a>> \in Seq(S) /\ <<b>> \in Seq(S)
  OBVIOUS
<1>2. PICK first : first = <<a>> \o s
  OBVIOUS
<1>3. /\ first \in Seq(S) /\ Len(first) = Len(s) + 1 /\ Len(s) \in Nat /\ first[1] = a
  BY <1>1, <1>2, ConcatProperties
<1> QED BY <1>1, <1>2, <1>3, ConcatProperties

\* The files of a report have different names, the JSON file comes first.
LEMMA NamesType ==
    ASSUME NEW request \in Requests
    PROVE  /\ Len(Names(request)) \in Nat /\ Len(Names(request)) >= 2
           /\ Names(request)[1] = "json"
           /\ \A i \in 1 .. Len(Names(request)) : Names(request)[i] \in FileNames
           /\ \A i, j \in 1 .. Len(Names(request)) :
                 Names(request)[i] = Names(request)[j] => i = j
<1>1. Tables[Asker(request)] \in Seq(FileNames)
  <2>1. Tables[Asker(request)] \in Seq(TableNames)
    BY ReportAssumption DEF Asker, Requests
  <2> QED BY <2>1 DEF FileNames
<1>2. PICK tables \in Seq(FileNames) : tables = Tables[Asker(request)]
  BY <1>1
<1>3. Names(request) = <<"json">> \o tables \o <<"markdown">>
  BY <1>2 DEF Names
<1>4. /\ Names(request) \in Seq(FileNames) /\ Len(Names(request)) = Len(tables) + 2
      /\ Len(tables) \in Nat /\ Names(request)[1] = "json"
  <2>1. "json" \in FileNames /\ "markdown" \in FileNames
    BY DEF FileNames
  <2> QED BY <1>3, <2>1, Enclosed
<1>5. \A i, j \in 1 .. Len(Names(request)) : Names(request)[i] = Names(request)[j] => i = j
  BY ReportAssumption
<1>6. \A i \in 1 .. Len(Names(request)) : Names(request)[i] \in FileNames
  BY <1>4, ElementOfSeq
<1>7. Len(Names(request)) \in Nat /\ Len(Names(request)) >= 2
  BY <1>4
<1> QED BY <1>4, <1>5, <1>6, <1>7

-----------------------------------------------------------------------------
(* Campaigns only add to the evidence. *)

\* The recorded runs stay, and a run that is added to a campaign has a higher number
\* than those it had.
RunsKept ==
    /\ saved \subseteq saved'
    /\ \A c \in Processes :
          /\ RunsOf(c) \subseteq RunsOf(c)'
          /\ \A run \in RunsOf(c), new \in RunsOf(c)' :
                new.id.number < run.id.number => new \in RunsOf(c)

LEMMA UnchangedRuns ==
    ASSUME saved' = saved
    PROVE  RunsKept /\ (Numbered => Numbered')
BY DEF RunsKept, RunsOf, Numbered

\* A record that is added to a campaign, or to none.
LEMMA AddedRun ==
    ASSUME Numbered, NEW by, NEW new, new.id = NewId(by), saved' = saved \cup {new}
    PROVE  RunsKept /\ Numbered'
<1>1. ASSUME NEW c \in Processes, by # c
      PROVE  RunsOf(c)' = RunsOf(c)
  BY <1>1 DEF RunsOf, NewId
<1>2. ASSUME by \in Processes
      PROVE  /\ RunsOf(by)' = RunsOf(by) \cup {new}
             /\ new.id.number = Cardinality(RunsOf(by))
  BY <1>2 DEF RunsOf, NewId
<1>3. ASSUME NEW c \in Processes
      PROVE  /\ RunsOf(c) \subseteq RunsOf(c)'
             /\ \A run \in RunsOf(c), other \in RunsOf(c)' :
                   other.id.number < run.id.number => other \in RunsOf(c)
             /\ IsFiniteSet(RunsOf(c)')
             /\ \A run \in RunsOf(c)' : run.id.number \in 0 .. Cardinality(RunsOf(c)') - 1
  <2>1. /\ IsFiniteSet(RunsOf(c)) /\ Cardinality(RunsOf(c)) \in Nat
        /\ \A run \in RunsOf(c) : run.id.number \in 0 .. Cardinality(RunsOf(c)) - 1
    BY FS_CardinalityType DEF Numbered
  <2>2. CASE by # c
    BY <1>1, <2>1, <2>2
  <2>3. CASE by = c
    <3>1. new \notin RunsOf(c)
      BY <1>2, <2>1, <2>3
    <3>2. /\ IsFiniteSet(RunsOf(c) \cup {new})
          /\ Cardinality(RunsOf(c) \cup {new}) = Cardinality(RunsOf(c)) + 1
      BY <2>1, <3>1, FS_AddElement
    <3>3. PICK runs : runs = RunsOf(c)'
      OBVIOUS
    <3>4. /\ runs = RunsOf(c) \cup {new} /\ new.id.number = Cardinality(RunsOf(c))
          /\ IsFiniteSet(runs) /\ Cardinality(runs) = Cardinality(RunsOf(c)) + 1
      BY <1>2, <2>3, <3>2, <3>3
    <3>5. \A run \in runs : run.id.number \in 0 .. Cardinality(runs) - 1
      BY <2>1, <3>4
    <3>6. \A run \in RunsOf(c), other \in runs :
             other.id.number < run.id.number => other \in RunsOf(c)
      BY <2>1, <3>4
    <3> QED BY <3>3, <3>4, <3>5, <3>6
  <2> QED BY <2>2, <2>3
<1> QED BY <1>3 DEF RunsKept, Numbered

LEMMA CampaignStep ==
    ASSUME Numbered, [Next]_vars
    PROVE  RunsKept /\ Numbered'
<1>1. CASE saved' = saved
  BY <1>1, UnchangedRuns
<1>2. ASSUME NEW c \in Processes, Attempt(c)
      PROVE  RunsKept /\ Numbered'
  <2>1. \E new : new.id = NewId(c) /\ saved' = saved \cup {new}
    BY <1>2 DEF Attempt, Record
  <2> QED BY <2>1, AddedRun
<1>3. ASSUME NEW run \in saved, Reproduce(run)
      PROVE  RunsKept /\ Numbered'
  <2>1. \E new : new.id = NewId("rerun") /\ saved' = saved \cup {new}
    BY <1>3 DEF Reproduce, Record
  <2> QED BY <2>1, AddedRun
<1>4. ASSUME NEW c \in Processes,
             Refuse(c) \/ Begin(c) \/ PassOver(c) \/ Contradict(c) \/ Benchmark(c)
             \/ NextProblem(c) \/ Finish(c) \/ Abort(c)
      PROVE  saved' = saved
  BY <1>4 DEF Refuse, Begin, PassOver, Contradict, Benchmark, NextProblem, Finish, Abort
<1>5. CASE UNCHANGED vars
  BY <1>1, <1>5 DEF vars
<1> QED BY <1>1, <1>2, <1>3, <1>4, <1>5 DEF Next

-----------------------------------------------------------------------------
(* The evidence of reports. *)

\* What an export says of itself, but for whether it is alone.
Same(x) ==
    LET e == export[x]
    IN  /\ export'[x].pc = e.pc /\ export'[x].request = e.request /\ export'[x].id = e.id
        /\ export'[x].runs = e.runs /\ export'[x].generated_at = e.generated_at
        /\ export'[x].next = e.next /\ export'[x].found = e.found

LEMMA StillOfCampaign ==
    ASSUME RunsKept, NEW id \in Ids, OfCampaign(id)
    PROVE  OfCampaign(id)'
<1>1. id.campaign \in Processes
  BY DEF Ids
<1> QED BY <1>1 DEF OfCampaign, RunsKept

LEMMA TypesGrow ==
    ASSUME RunsKept
    PROVE  Contents \subseteq Contents' /\ Ids \subseteq Ids' /\ Exports \subseteq Exports'
<1>1. SUBSET saved \subseteq SUBSET saved'
  BY DEF RunsKept
<1>2. Contents \subseteq Contents' /\ Ids \subseteq Ids'
  BY <1>1 DEF Contents, Ids
<1>3. SUBSET [path : Ids \X FileNames, content : Contents]
         \subseteq SUBSET [path : Ids' \X FileNames, content : Contents']
  BY <1>2
<1>4. {Nothing} \cup Ids \subseteq {Nothing} \cup Ids'
  BY <1>2
<1>5. Exports \subseteq Exports'
  BY <1>1, <1>3, <1>4 DEF Exports
<1> QED BY <1>2, <1>5

LEMMA ExportType ==
    ASSUME ReportTypeOK, NEW x \in Exporters
    PROVE  /\ export[x] \in Exports /\ export[x].request \in Requests
           /\ export[x].runs \subseteq saved /\ export[x].id \in {Nothing} \cup Ids
           /\ export[x].generated_at \in {Nothing} \cup Exporters /\ export[x].next \in Nat
           /\ \A f \in export[x].found :
                 f.path \in Ids \X FileNames /\ f.content \in Contents
<1>1. export[x] \in Exports
  BY DEF ReportTypeOK
<1>2. /\ export[x].request \in Requests
      /\ export[x].runs \subseteq saved /\ export[x].id \in {Nothing} \cup Ids
      /\ export[x].generated_at \in {Nothing} \cup Exporters /\ export[x].next \in Nat
      /\ export[x].found \in SUBSET [path : Ids \X FileNames, content : Contents]
  BY <1>1 DEF Exports
<1>3. \A f \in export[x].found : f.path \in Ids \X FileNames /\ f.content \in Contents
  BY <1>2
<1> QED BY <1>1, <1>2, <1>3

LEMMA FreeType ==
    ASSUME NEW how \in {"idle", "done", "refused", "failed", "stopped"}
    PROVE  Free(how) \in Exports
<1>1. /\ Nothing \in {Nothing} \cup Ids /\ Nothing \in {Nothing} \cup Exporters
      /\ {} \in SUBSET saved /\ {} \in SUBSET [path : Ids \X FileNames, content : Contents]
  OBVIOUS
<1>2. FALSE \in BOOLEAN /\ 1 \in Nat /\ "page" \in Requests
  BY DEF Requests
<1> QED BY <1>1, <1>2 DEF Free, Exports

\* An export that does not move keeps what it is about.
LEMMA ExportKept ==
    ASSUME ReportTypeOK, NEW x \in Exporters, ExportInv(x), Same(x), RunsKept,
           DOMAIN files \subseteq DOMAIN files'
    PROVE  ExportInv(x)'
<1>1. /\ Live(x)' <=> Live(x)
      /\ Path(x)' = Path(x)
  BY DEF Same, Live, Path
<1>2. CASE ~ Live(x)
  BY <1>1, <1>2 DEF ExportInv, Same
<1>3. CASE Live(x)
  <2>1. /\ export[x].id \in Ids /\ OfCampaign(export[x].id)
        /\ export[x].id.runs = export[x].runs /\ export[x].runs # {}
        /\ export[x].next \in 1 .. Len(Names(export[x].request))
        /\ export[x].pc = "look" => export[x].next = 1 /\ export[x].request = "comparison"
        /\ \A f \in export[x].found : f.path \in FilesOf(export[x].id)
        /\ export[x].request = "page" /\ export[x].pc \in {"open", "close"} =>
              \A f \in export[x].found : f.path # Path(x)
    BY <1>3 DEF ExportInv
  <2>2. OfCampaign(export[x].id)' /\ export[x].id \in Ids'
    <3>1. PICK id \in Ids : id = export[x].id
      BY <2>1
    <3>2. id \in Ids' /\ OfCampaign(id)'
      BY <2>1, <3>1, StillOfCampaign, TypesGrow
    <3>3. export'[x].id = id
      BY <3>1 DEF Same
    <3> QED BY <3>2, <3>3 DEF Same, OfCampaign
  <2>3. \A f \in export[x].found : f.path \in FilesOf(export[x].id)'
    BY <2>1 DEF FilesOf, Same
  <2> QED BY <1>1, <1>3, <2>1, <2>2, <2>3 DEF ExportInv, Same
<1> QED BY <1>2, <1>3

LEMMA FilesKept ==
    ASSUME EvidenceInv, RunsKept, files' = files
    PROVE  /\ FilesInv'
           /\ DOMAIN files' \subseteq Ids' \X FileNames
           /\ files' \in [DOMAIN files' -> Contents']
<1>1. /\ \A p \in DOMAIN files : OfCampaign(p[1])'
  BY StillOfCampaign DEF EvidenceInv, ReportTypeOK, FilesInv
<1>2. FilesInv'
  BY <1>1 DEF EvidenceInv, FilesInv, Whole
<1> QED BY <1>2, TypesGrow DEF EvidenceInv, ReportTypeOK

\* A step of a campaign.
LEMMA EvidenceOfCampaign ==
    ASSUME EvidenceInv, [Next]_vars, UNCHANGED exporting
    PROVE  EvidenceInv'
<1>1. RunsKept /\ Numbered' /\ files' = files /\ export' = export
  BY CampaignStep DEF EvidenceInv, exporting
<1>2. ReportTypeOK'
  BY <1>1, FilesKept, TypesGrow DEF EvidenceInv, ReportTypeOK
<1>3. ExportsInv'
  BY <1>1, ExportKept DEF EvidenceInv, ExportsInv, Same
<1> QED BY <1>1, <1>2, <1>3, FilesKept DEF EvidenceInv

\* A step of an exporter: what has to be shown of it.
LEMMA EvidenceOfExport ==
    ASSUME EvidenceInv, UNCHANGED vars, NEW x \in Exporters,
           export' \in [Exporters -> Exports], \A y \in Exporters \ {x} : Same(y),
           DOMAIN files \subseteq DOMAIN files', DOMAIN files' \subseteq Ids \X FileNames,
           files' \in [DOMAIN files' -> Contents], FilesInv', ExportInv(x)'
    PROVE  EvidenceInv'
<1>1. saved' = saved /\ RunsKept /\ Numbered'
  BY UnchangedRuns DEF vars, EvidenceInv
<1>2. ReportTypeOK'
  BY <1>1, TypesGrow DEF ReportTypeOK
<1>3. \A y \in Exporters \ {x} : ExportInv(y)'
  BY <1>1, ExportKept DEF EvidenceInv, ExportsInv
<1> QED BY <1>1, <1>2, <1>3 DEF EvidenceInv, ExportsInv

LEMMA StartHolds ==
    ASSUME EvidenceInv, UNCHANGED vars, NEW x \in Exporters, NEW request \in Requests,
           NEW c \in Processes, NEW runs \in SUBSET RunsOf(c), Start(x, request, c, runs)
    PROVE  EvidenceInv'
<1> DEFINE e == export'[x]
<1>1. PICK id : id = ReportOf(request, c, runs)
  OBVIOUS
<1>2. PICK others : others = {y \in Exporters : Live(y) /\ export[y].id = id}
  OBVIOUS
<1>3. PICK step : step = CASE request = "comparison" -> "look"
                           [] request = "page" -> "check"
                           [] OTHER -> "open"
  OBVIOUS
<1>4. PICK found : found = {[path |-> p, content |-> files[p]] : p \in FilesOf(id)}
  OBVIOUS
<1>5. PICK new : new = [pc |-> step, request |-> request, id |-> id, runs |-> runs,
                        generated_at |-> x, next |-> 1, found |-> found,
                        alone |-> others = {}]
  OBVIOUS
<1>6. /\ files' = files /\ runs # {} /\ saved' = saved
      /\ request # "comparison" => runs = RunsOf(c)
      /\ export' = [y \in Exporters |-> IF y = x THEN new
                                        ELSE [export[y] EXCEPT !.alone = @ /\ y \notin others]]
  BY <1>1, <1>2, <1>3, <1>4, <1>5 DEF Start, vars
<1>7. /\ id \in Ids /\ OfCampaign(id) /\ id.runs = runs
      /\ runs \subseteq saved
  BY <1>1, <1>6 DEF ReportOf, Asker, Requests, Ids, OfCampaign, RunsOf
<1>8. new \in Exports
  <2>1. found \in SUBSET [path : Ids \X FileNames, content : Contents]
    BY <1>4 DEF EvidenceInv, ReportTypeOK, FilesOf
  <2>2. step \in {"look", "check", "open"}
    BY <1>3
  <2>3. (others = {}) \in BOOLEAN /\ 1 \in Nat
    OBVIOUS
  <2>4. id \in {Nothing} \cup Ids /\ x \in {Nothing} \cup Exporters /\ runs \in SUBSET saved
    BY <1>7
  <2> QED BY <1>5, <2>1, <2>2, <2>3, <2>4 DEF Exports
<1>9. export' \in [Exporters -> Exports]
  <2>1. ASSUME NEW y \in Exporters
        PROVE  [export[y] EXCEPT !.alone = @ /\ y \notin others] \in Exports
    <3>1. export[y] \in Exports
      BY ExportType DEF EvidenceInv
    <3>2. (export[y].alone /\ y \notin others) \in BOOLEAN
      OBVIOUS
    <3>3. \A alone \in BOOLEAN : [export[y] EXCEPT !.alone = alone] \in Exports
      BY <3>1 DEF Exports
    <3> QED BY <3>2, <3>3
  <2> QED BY <1>6, <1>8, <2>1
<1>10. \A y \in Exporters \ {x} : Same(y)
  BY <1>6, ExportType DEF EvidenceInv, Same, Exports
<1>11. ExportInv(x)'
  <2>1. /\ e.pc = step /\ e.request = request /\ e.id = id /\ e.runs = runs
        /\ e.next = 1 /\ e.found = found
    BY <1>5, <1>6
  <2>2. /\ step \in {"look", "check", "open"}
        /\ step = "look" => request = "comparison"
        /\ request = "page" => step = "check"
    BY <1>3
  <2>3. \A f \in found : f.path \in FilesOf(id)'
    BY <1>4, <1>6 DEF FilesOf
  <2>4. OfCampaign(id)' /\ id \in Ids'
    BY <1>6, <1>7, UnchangedRuns, StillOfCampaign, TypesGrow
  <2>5. 1 \in 1 .. Len(Names(request))
    BY NamesType
  <2> QED BY <1>6, <1>7, <2>1, <2>2, <2>3, <2>4, <2>5 DEF ExportInv, Live, OfCampaign
<1> QED
  BY <1>6, <1>9, <1>10, <1>11, UnchangedRuns, FilesKept, EvidenceOfExport
     DEF EvidenceInv, ReportTypeOK

\* A step that is about one exporter.
LEMMA OneMoves ==
    ASSUME EvidenceInv, NEW x \in Exporters, NEW new \in Exports,
           export' = [export EXCEPT ![x] = new]
    PROVE  /\ export' \in [Exporters -> Exports] /\ export'[x] = new
           /\ \A y \in Exporters \ {x} : export'[y] = export[y] /\ Same(y)
BY DEF EvidenceInv, ReportTypeOK, Same

\* The end of an export.
LEMMA EndHolds ==
    ASSUME EvidenceInv, UNCHANGED vars, NEW x \in Exporters,
           NEW how \in {"done", "refused", "failed", "stopped"}, End(x, how),
           DOMAIN files \subseteq DOMAIN files', DOMAIN files' \subseteq Ids \X FileNames,
           files' \in [DOMAIN files' -> Contents], FilesInv'
    PROVE  EvidenceInv'
<1>1. Free(how) \in Exports
  BY FreeType
<1>2. /\ export' \in [Exporters -> Exports] /\ export'[x] = Free(how)
      /\ \A y \in Exporters \ {x} : Same(y)
  BY <1>1, OneMoves DEF End
<1>3. ExportInv(x)'
  BY <1>2 DEF ExportInv, Live, Free
<1> QED BY <1>2, <1>3, EvidenceOfExport

\* An export that goes on; it writes nothing yet, or what it may write.
LEMMA GoesOn ==
    ASSUME EvidenceInv, UNCHANGED vars, NEW x \in Exporters, Live(x), NEW new \in Exports,
           export' = [export EXCEPT ![x] = new],
           DOMAIN files \subseteq DOMAIN files', DOMAIN files' \subseteq Ids \X FileNames,
           files' \in [DOMAIN files' -> Contents], FilesInv',
           new.pc \in {"check", "open", "close"},
           new.request = export[x].request, new.id = export[x].id, new.runs = export[x].runs,
           new.found = export[x].found,
           new.next \in 1 .. Len(Names(new.request)),
           new.request = "page" /\ new.pc \in {"open", "close"} =>
              \A f \in new.found : f.path # <<new.id, Names(new.request)[new.next]>>
    PROVE  EvidenceInv'
<1>1. /\ export' \in [Exporters -> Exports] /\ export'[x] = new
      /\ \A y \in Exporters \ {x} : Same(y)
  BY OneMoves
<1>2. /\ new.id \in Ids /\ OfCampaign(new.id)
      /\ new.id.runs = new.runs /\ new.runs # {}
      /\ \A f \in new.found : f.path \in FilesOf(new.id)
  BY DEF EvidenceInv, ExportsInv, ExportInv
<1>3. OfCampaign(new.id)' /\ new.id \in Ids'
  BY <1>2, UnchangedRuns, StillOfCampaign, TypesGrow DEF vars
<1>4. \A f \in new.found : f.path \in FilesOf(new.id)'
  BY <1>2 DEF FilesOf
<1>5. Path(x)' = <<new.id, Names(new.request)[new.next]>>
  BY <1>1 DEF Path
<1>6. ExportInv(x)'
  BY <1>1, <1>2, <1>3, <1>4, <1>5 DEF ExportInv, Live, OfCampaign
<1> QED BY <1>1, <1>6, EvidenceOfExport

\* What an exporter that is at work is about.
LEMMA LiveExport ==
    ASSUME EvidenceInv, NEW x \in Exporters, Live(x)
    PROVE  /\ export[x] \in Exports /\ export[x].request \in Requests
           /\ export[x].id \in Ids /\ export[x].runs \subseteq saved
           /\ export[x].generated_at \in {Nothing} \cup Exporters
           /\ export[x].id.runs = export[x].runs /\ OfCampaign(export[x].id)
           /\ export[x].next \in 1 .. Len(Names(export[x].request))
           /\ Path(x) = <<export[x].id, Names(export[x].request)[export[x].next]>>
           /\ Path(x) \in Ids \X FileNames
           /\ \A f \in export[x].found : f.path \in FilesOf(export[x].id)
<1>1. /\ export[x] \in Exports /\ export[x].request \in Requests
      /\ export[x].generated_at \in {Nothing} \cup Exporters /\ export[x].runs \subseteq saved
  BY ExportType DEF EvidenceInv
<1>2. /\ export[x].id \in Ids /\ export[x].id.runs = export[x].runs
      /\ OfCampaign(export[x].id)
      /\ export[x].next \in 1 .. Len(Names(export[x].request))
      /\ \A f \in export[x].found : f.path \in FilesOf(export[x].id)
  BY DEF EvidenceInv, ExportsInv, ExportInv
<1>3. Names(export[x].request)[export[x].next] \in FileNames
  BY <1>1, <1>2, NamesType
<1> QED BY <1>1, <1>2, <1>3 DEF Path

\* Nothing is written.
LEMMA NothingWritten ==
    ASSUME EvidenceInv, UNCHANGED vars, files' = files
    PROVE  /\ DOMAIN files \subseteq DOMAIN files' /\ DOMAIN files' \subseteq Ids \X FileNames
           /\ files' \in [DOMAIN files' -> Contents] /\ FilesInv'
<1>1. FilesInv'
  BY UnchangedRuns, FilesKept DEF vars
<1> QED BY <1>1 DEF EvidenceInv, ReportTypeOK

\* What is written is of the runs of the report.
LEMMA PutHolds ==
    ASSUME EvidenceInv, UNCHANGED vars, NEW x \in Exporters, Live(x),
           NEW content \in Contents, content = Torn \/ content.runs = export[x].runs,
           Put(Path(x), content)
    PROVE  /\ DOMAIN files \subseteq DOMAIN files' /\ DOMAIN files' \subseteq Ids \X FileNames
           /\ files' \in [DOMAIN files' -> Contents] /\ FilesInv'
<1>1. PICK path : path = Path(x)
  OBVIOUS
<1>2. /\ path \in Ids \X FileNames /\ path[1] = export[x].id
      /\ export[x].id.runs = export[x].runs /\ OfCampaign(export[x].id)
  BY <1>1, LiveExport
<1>3. files' = [p \in DOMAIN files \cup {path} |-> IF p = path THEN content ELSE files[p]]
  BY <1>1 DEF Put
<1>4. /\ DOMAIN files' = DOMAIN files \cup {path}
      /\ files'[path] = content /\ \A p \in DOMAIN files \ {path} : files'[p] = files[p]
  BY <1>3
<1>5. /\ DOMAIN files' \subseteq Ids \X FileNames
      /\ files' \in [DOMAIN files' -> Contents]
  BY <1>2, <1>3 DEF EvidenceInv, ReportTypeOK
<1>6. \A p \in DOMAIN files : OfCampaign(p[1]) /\ (Whole(p) => files[p].runs = p[1].runs)
  BY DEF EvidenceInv, FilesInv
<1>7. ASSUME NEW p \in DOMAIN files'
      PROVE  OfCampaign(p[1]) /\ (files'[p] # Torn => files'[p].runs = p[1].runs)
  BY <1>2, <1>4, <1>6 DEF Whole
<1>8. saved' = saved
  BY DEF vars
<1>9. FilesInv'
  BY <1>7, <1>8 DEF FilesInv, Whole, OfCampaign, RunsOf, Torn
<1> QED BY <1>4, <1>5, <1>9

LEMMA LookHolds ==
    ASSUME EvidenceInv, UNCHANGED vars, NEW x \in Exporters, Look(x)
    PROVE  EvidenceInv'
<1>1. Live(x) /\ files' = files /\ export[x].pc = "look"
  BY DEF Look, Live
<1>2. /\ export[x] \in Exports /\ export[x].next \in 1 .. Len(Names(export[x].request))
      /\ export[x].request = "comparison"
  BY <1>1, LiveExport DEF EvidenceInv, ExportsInv, ExportInv
<1>3. CASE \E how \in {"failed", "refused"} : End(x, how)
  BY <1>1, <1>3, NothingWritten, EndHolds
<1>4. CASE Goto(x, "open")
  <2>1. [export[x] EXCEPT !.pc = "open"] \in Exports
    BY <1>2 DEF Exports
  <2>2. export' = [export EXCEPT ![x] = [export[x] EXCEPT !.pc = "open"]]
    BY <1>4 DEF Goto
  <2> QED BY <1>1, <1>2, <2>1, <2>2, NothingWritten, GoesOn DEF Exports
<1>5. CASE /\ Path(x) \in DOMAIN files
           /\ export' = [export EXCEPT ![x].pc = "open",
                                       ![x].generated_at = files[Path(x)].generated_at]
  <2>1. PICK time : time = files[Path(x)].generated_at
    OBVIOUS
  <2>2. time \in {Nothing} \cup Exporters
    BY <1>5, <2>1 DEF EvidenceInv, ReportTypeOK, Contents
  <2>3. [export[x] EXCEPT !.pc = "open", !.generated_at = time] \in Exports
    BY <1>2, <2>2 DEF Exports
  <2>4. export' = [export EXCEPT ![x] = [export[x] EXCEPT !.pc = "open", !.generated_at = time]]
    BY <1>5, <2>1
  <2> QED BY <1>1, <1>2, <2>3, <2>4, NothingWritten, GoesOn DEF Exports
<1> QED BY <1>3, <1>4, <1>5 DEF Look

LEMMA CheckHolds ==
    ASSUME EvidenceInv, UNCHANGED vars, NEW x \in Exporters, Check(x)
    PROVE  EvidenceInv'
<1>1. Live(x) /\ files' = files
  BY DEF Check, Live
<1>2. CASE End(x, "refused")
  BY <1>1, <1>2, NothingWritten, EndHolds
<1>3. CASE Path(x) \notin DOMAIN files /\ Goto(x, "open")
  <2>1. /\ export[x] \in Exports /\ export[x].next \in 1 .. Len(Names(export[x].request))
        /\ \A f \in export[x].found : f.path # Path(x)
        /\ Path(x) = <<export[x].id, Names(export[x].request)[export[x].next]>>
    BY <1>1, <1>3, LiveExport DEF FilesOf
  <2>2. [export[x] EXCEPT !.pc = "open"] \in Exports
    BY <2>1 DEF Exports
  <2>3. export' = [export EXCEPT ![x] = [export[x] EXCEPT !.pc = "open"]]
    BY <1>3 DEF Goto
  <2> QED BY <1>1, <2>1, <2>2, <2>3, NothingWritten, GoesOn DEF Exports
<1> QED BY <1>2, <1>3 DEF Check

LEMMA OpenHolds ==
    ASSUME EvidenceInv, UNCHANGED vars, NEW x \in Exporters, Open(x)
    PROVE  EvidenceInv'
<1>1. Live(x) /\ export[x].pc = "open" /\ Put(Path(x), Torn) /\ Goto(x, "close")
  BY DEF Open, Live
<1>2. /\ export[x] \in Exports /\ export[x].next \in 1 .. Len(Names(export[x].request))
      /\ Path(x) = <<export[x].id, Names(export[x].request)[export[x].next]>>
      /\ export[x].request = "page" => \A f \in export[x].found : f.path # Path(x)
  BY <1>1, LiveExport DEF EvidenceInv, ExportsInv, ExportInv
<1>3. Torn \in Contents
  BY DEF Torn, Contents
<1>4. [export[x] EXCEPT !.pc = "close"] \in Exports
  BY <1>2 DEF Exports
<1>5. export' = [export EXCEPT ![x] = [export[x] EXCEPT !.pc = "close"]]
  BY <1>1 DEF Goto
<1> QED BY <1>1, <1>2, <1>3, <1>4, <1>5, PutHolds, GoesOn DEF Exports

\* The content of a file.
LEMMA ContentType ==
    ASSUME NEW runs \in SUBSET saved, NEW time \in {Nothing} \cup Exporters, NEW name
    PROVE  Content(runs, time, name) \in Contents /\ Content(runs, time, name).runs = runs
BY DEF Content, Contents

LEMMA CloseHolds ==
    ASSUME EvidenceInv, UNCHANGED vars, NEW x \in Exporters, Close(x)
    PROVE  EvidenceInv'
<1>1. /\ Live(x) /\ export[x].pc = "close"
      /\ Put(Path(x), Content(export[x].runs, export[x].generated_at, Path(x)[2]))
  BY DEF Close, Live
<1>2. /\ export[x] \in Exports /\ export[x].next \in 1 .. Len(Names(export[x].request))
      /\ export[x].request \in Requests /\ Len(Names(export[x].request)) \in Nat
  BY <1>1, LiveExport, NamesType
<1>3. PICK content : content = Content(export[x].runs, export[x].generated_at, Path(x)[2])
  OBVIOUS
<1>4. /\ content \in Contents /\ content.runs = export[x].runs
      /\ Put(Path(x), content)
  BY <1>1, <1>3, LiveExport, ContentType
<1>5. CASE End(x, "done")
  BY <1>1, <1>4, <1>5, PutHolds, EndHolds
<1>6. CASE /\ export[x].next # Len(Names(export[x].request))
           /\ export' = [export EXCEPT
                           ![x].next = @ + 1,
                           ![x].pc = IF export[x].request = "page" THEN "check" ELSE "open"]
  <2>1. PICK step : step = IF export[x].request = "page" THEN "check" ELSE "open"
    OBVIOUS
  <2>2. PICK n : n = export[x].next + 1
    OBVIOUS
  <2>3. n \in 1 .. Len(Names(export[x].request)) /\ n \in Nat
    BY <1>2, <1>6, <2>2
  <2>4. [export[x] EXCEPT !.next = n, !.pc = step] \in Exports
    BY <1>2, <2>1, <2>3 DEF Exports
  <2>5. export' = [export EXCEPT ![x] = [export[x] EXCEPT !.next = n, !.pc = step]]
    BY <1>6, <2>1, <2>2
  <2>6. /\ DOMAIN files \subseteq DOMAIN files' /\ DOMAIN files' \subseteq Ids \X FileNames
        /\ files' \in [DOMAIN files' -> Contents] /\ FilesInv'
    BY <1>1, <1>4, PutHolds
  <2>7. /\ [export[x] EXCEPT !.next = n, !.pc = step].pc = step
        /\ step \in {"check", "open"} /\ (export[x].request = "page" => step = "check")
        /\ \A field \in {"request", "id", "runs", "found"} :
              [export[x] EXCEPT !.next = n, !.pc = step][field] = export[x][field]
        /\ [export[x] EXCEPT !.next = n, !.pc = step].next = n
    BY <1>2, <2>1 DEF Exports
  <2>8. PICK new \in Exports : new = [export[x] EXCEPT !.next = n, !.pc = step]
    BY <2>4
  <2>9. /\ new.pc = step /\ new.request = export[x].request /\ new.id = export[x].id
        /\ new.runs = export[x].runs /\ new.found = export[x].found /\ new.next = n
    BY <2>7, <2>8
  <2> QED BY <1>1, <2>3, <2>5, <2>6, <2>7, <2>8, <2>9, GoesOn
<1> QED BY <1>5, <1>6 DEF Close

LEMMA StopHolds ==
    ASSUME EvidenceInv, UNCHANGED vars, NEW x \in Exporters, Stop(x)
    PROVE  EvidenceInv'
BY NothingWritten, EndHolds DEF Stop

LEMMA EvidenceInit == ReportInit => EvidenceInv
<1> SUFFICES ASSUME ReportInit PROVE EvidenceInv
  OBVIOUS
<1>1. \A run \in saved : OldRun(run)
  BY CampaignAssumption DEF ReportInit, Init
<1>2. \A c \in Processes : RunsOf(c) = {}
  BY <1>1 DEF RunsOf, OldRun
<1>3. Numbered
  BY <1>2, FS_EmptySet DEF Numbered
<1>4. export \in [Exporters -> Exports] /\ DOMAIN files = {}
  BY FreeType DEF ReportInit
<1>5. files \in [DOMAIN files -> Contents]
  BY <1>4 DEF ReportInit
<1>6. ExportsInv
  BY DEF ReportInit, ExportsInv, ExportInv, Live, Free
<1> QED BY <1>3, <1>4, <1>5, <1>6 DEF EvidenceInv, ReportTypeOK, FilesInv

LEMMA EvidenceStep == EvidenceInv /\ [ReportNext]_<<vars, exporting>> => EvidenceInv'
<1> SUFFICES ASSUME EvidenceInv, [ReportNext]_<<vars, exporting>> PROVE EvidenceInv'
  OBVIOUS
<1>1. CASE [Next]_vars /\ UNCHANGED exporting
  BY <1>1, EvidenceOfCampaign
<1>2. ASSUME NEW x \in Exporters, Export(x), UNCHANGED vars
      PROVE  EvidenceInv'
  BY <1>2, StartHolds, LookHolds, CheckHolds, OpenHolds, CloseHolds, StopHolds DEF Export
<1> QED BY <1>1, <1>2 DEF ReportNext

\* Reports are about recorded runs, and whole files of one report about the same.
THEOREM EvidenceIsInvariant == ReportSpec => []EvidenceInv
BY EvidenceInit, EvidenceStep, PTL DEF ReportSpec

-----------------------------------------------------------------------------
(* What follows from it. *)

\* Exporting changes nothing of the campaigns and their records: what is proved of
\* Spec holds beside any number of exporters.
THEOREM ReportsOnlyRead == ReportSpec => Spec
<1>1. ReportInit => Init
  BY DEF ReportInit
<1>2. [ReportNext]_<<vars, exporting>> => [Next]_vars
  BY DEF ReportNext
<1> QED BY <1>1, <1>2, PTL DEF ReportSpec, Spec

\* The readable files of a report were made of the same recorded runs, and a report
\* of a campaign leaves out no run older than one it cites.
THEOREM Reproducible == ReportSpec => []ReportsAreReproducible
<1>1. ASSUME EvidenceInv PROVE ReportsAreReproducible
  <2> SUFFICES ASSUME NEW p \in DOMAIN files, Whole(p)
               PROVE  /\ files[p].runs \subseteq saved
                      /\ \A q \in FilesOf(p[1]) : Whole(q) => files[q].runs = files[p].runs
                      /\ p[1].asker = "page" =>
                            \A run \in files[p].runs, older \in RunsOf(p[1].campaign) :
                               older.id.number < run.id.number => older \in files[p].runs
    BY DEF ReportsAreReproducible
  <2>1. files[p].runs = p[1].runs /\ OfCampaign(p[1])
    BY <1>1 DEF EvidenceInv, FilesInv
  <2>2. files[p].runs \subseteq saved
    BY <1>1 DEF EvidenceInv, ReportTypeOK, Contents
  <2>3. \A q \in FilesOf(p[1]) : Whole(q) => files[q].runs = files[p].runs
    BY <1>1, <2>1 DEF EvidenceInv, FilesInv, FilesOf
  <2> QED BY <2>1, <2>2, <2>3 DEF OfCampaign
<1> QED BY <1>1, EvidenceIsInvariant, PTL

\* An exporter moves alone; a new one may disturb another.
LEMMA OthersRest ==
    ASSUME EvidenceInv, NEW x \in Exporters, NEW y \in Exporters \ {x}, Export(y)
    PROVE  Same(x)
<1>1. export \in [Exporters -> Exports]
  BY DEF EvidenceInv, ReportTypeOK
<1>2. CASE \E request \in Requests, c \in Processes :
              \E runs \in SUBSET RunsOf(c) : Start(y, request, c, runs)
  BY <1>1, <1>2 DEF Start, Same, Exports
<1>3. CASE Look(y) \/ Check(y) \/ Open(y) \/ Close(y) \/ Stop(y)
  <2>1. export'[x] = export[x]
    BY <1>1, <1>3 DEF Look, Check, Open, Close, Stop, Goto, End
  <2> QED BY <2>1 DEF Same
<1> QED BY <1>2, <1>3 DEF Export

\* A writing exporter changes one file.
LEMMA WritesOne ==
    ASSUME NEW y \in Exporters, Export(y), NEW path \in DOMAIN files,
           files'[path] # files[path]
    PROVE  /\ Live(y) /\ export[y].pc \in {"open", "close"} /\ path = Path(y)
           /\ Open(y) \/ Close(y)
<1>1. CASE files' = files
  BY <1>1
<1>2. CASE Open(y) \/ Close(y)
  BY <1>2 DEF Open, Close, Put, Live
<1> QED BY <1>1, <1>2 DEF Export, Start, Look, Check, Stop

\* A command that does not overwrite leaves every file as it found it, also when
\* it is refused half-way or competes with others.
THEOREM NothingOverwritten == ReportSpec => NothingIsOverwritten
<1> DEFINE Kept(x) == /\ export[x].request = "page" /\ export'[x].pc # export[x].pc
                      => \A f \in export[x].found : files'[f.path] = files[f.path]
<1>1. ASSUME EvidenceInv, [ReportNext]_<<vars, exporting>>, NEW x \in Exporters
      PROVE  Kept(x)
  <2> SUFFICES ASSUME export[x].request = "page", export'[x].pc # export[x].pc,
                      NEW f \in export[x].found, files'[f.path] # files[f.path]
               PROVE  FALSE
    OBVIOUS
  <2>1. PICK y \in Exporters : Export(y)
    BY <1>1 DEF ReportNext, exporting
  <2>2. y = x
    BY <1>1, <2>1, OthersRest DEF Same
  <2>3. Live(x)
    BY <1>1 DEF EvidenceInv, ExportsInv, ExportInv
  <2>4. f.path \in DOMAIN files
    BY <1>1, <2>3, LiveExport DEF FilesOf
  <2>5. export[x].pc \in {"open", "close"} /\ f.path = Path(x)
    BY <2>1, <2>2, <2>4, WritesOne
  <2> QED BY <1>1, <2>3, <2>5 DEF EvidenceInv, ExportsInv, ExportInv
<1>2. EvidenceInv /\ [ReportNext]_<<vars, exporting>> => [\A x \in Exporters : Kept(x)]_<<files, export>>
  BY <1>1
<1> QED BY <1>2, EvidenceIsInvariant, PTL DEF ReportSpec, NothingIsOverwritten

-----------------------------------------------------------------------------
(* An export that nobody disturbs. *)

\* Who was alone, and is not at once disturbed, was and is the only one at its report.
LEMMA StillAlone ==
    ASSUME EvidenceInv, AloneInv, NEW x \in Exporters, NEW y \in Exporters \ {x}, Export(y),
           Live(x), export'[x].alone
    PROVE  /\ export[x].alone /\ Undisturbed(x)
           /\ \A z \in Exporters \ {x} : Live(z)' => export'[z].id # export[x].id
           /\ Live(y) => Path(y)[1] # export[x].id
<1>1. export \in [Exporters -> Exports]
  BY DEF EvidenceInv, ReportTypeOK
<1>2. /\ export[x].alone
      /\ Live(y)' => (Live(y) /\ export'[y].id = export[y].id) \/ export'[y].id # export[x].id
  <2>1. ASSUME NEW request \in Requests, NEW c \in Processes, NEW runs \in SUBSET RunsOf(c),
               Start(y, request, c, runs)
        PROVE  export[x].alone /\ export'[y].id # export[x].id
    <3>1. PICK id : id = ReportOf(request, c, runs)
      OBVIOUS
    <3>2. PICK others : others = {z \in Exporters : Live(z) /\ export[z].id = id}
      OBVIOUS
    <3>3. /\ export'[x] = [export[x] EXCEPT !.alone = @ /\ x \notin others]
          /\ export'[y].id = id
      BY <2>1, <3>1, <3>2 DEF Start
    <3>4. export[x].alone /\ x \notin others
      BY <1>1, <3>3 DEF Exports
    <3> QED BY <3>2, <3>3, <3>4
  <2>2. CASE Look(y) \/ Check(y) \/ Open(y) \/ Close(y) \/ Stop(y)
    <3>1. export'[x] = export[x] /\ Live(y)
      BY <1>1, <2>2 DEF Look, Check, Open, Close, Stop, Goto, End, Live
    <3>2. Live(y)' => export'[y].id = export[y].id
      BY <1>1, <2>2 DEF Look, Check, Open, Close, Stop, Goto, End, Live, Free, Exports
    <3> QED BY <3>1, <3>2
  <2> QED BY <2>1, <2>2 DEF Export
<1>3. Undisturbed(x)
  BY <1>2 DEF AloneInv
<1>4. \A z \in Exporters \ {x} : Live(z) => export[z].id # export[x].id
  BY <1>3 DEF Undisturbed
<1>5. ASSUME NEW z \in Exporters \ {x}, Live(z)'
      PROVE  export'[z].id # export[x].id
  <2>1. CASE z = y
    BY <1>2, <1>4, <1>5, <2>1 DEF Live
  <2>2. CASE z # y
    <3>1. Same(z)
      BY <2>2, OthersRest
    <3> QED BY <1>4, <1>5, <3>1 DEF Same, Live
  <2> QED BY <2>1, <2>2
<1>6. Live(y) => Path(y)[1] # export[x].id
  BY <1>4 DEF Path
<1> QED BY <1>2, <1>3, <1>5, <1>6

\* A step of another exporter.
LEMMA AloneAside ==
    ASSUME EvidenceInv, AloneInv, NEW x \in Exporters, NEW y \in Exporters \ {x}, Export(y),
           Live(x)', export'[x].alone
    PROVE  Undisturbed(x)'
<1>1. Same(x)
  BY OthersRest
<1>2. Live(x)
  BY <1>1 DEF Live, Same
<1>3. /\ Undisturbed(x)
      /\ \A z \in Exporters \ {x} : Live(z)' => export'[z].id # export[x].id
      /\ Live(y) => Path(y)[1] # export[x].id
  BY <1>2, StillAlone
<1>4. \A p \in DOMAIN files : p[1] = export[x].id => p \in DOMAIN files' /\ files'[p] = files[p]
  <2>1. DOMAIN files \subseteq DOMAIN files'
    BY DEF Export, Start, Look, Check, Open, Close, Stop, Put
  <2> QED BY <1>3, <2>1, WritesOne
<1>5. \A i \in 1 .. export[x].next - 1 : WrittenBy(x, i)'
  BY <1>1, <1>3, <1>4 DEF Undisturbed, WrittenBy, Same
<1>6. \A f \in export[x].found : f.path \in DOMAIN files /\ f.path[1] = export[x].id
  BY <1>2, LiveExport DEF FilesOf
<1>7. export[x].request = "comparison" =>
         \A f \in export[x].found : f.path[2] = "json" =>
            IF export[x].pc = "look" THEN files'[f.path] = f.content
            ELSE f.content = Content(export[x].runs, export[x].generated_at, "json")
  BY <1>3, <1>4, <1>6 DEF Undisturbed
<1> QED BY <1>1, <1>3, <1>5, <1>7 DEF Undisturbed, Same

\* A step of the exporter itself.
LEMMA AloneStarts ==
    ASSUME EvidenceInv, NEW x \in Exporters, NEW request \in Requests, NEW c \in Processes,
           NEW runs \in SUBSET RunsOf(c), Start(x, request, c, runs), export'[x].alone
    PROVE  Undisturbed(x)'
<1>1. PICK id : id = ReportOf(request, c, runs)
  OBVIOUS
<1>2. PICK others : others = {y \in Exporters : Live(y) /\ export[y].id = id}
  OBVIOUS
<1>3. PICK found : found = {[path |-> p, content |-> files[p]] : p \in FilesOf(id)}
  OBVIOUS
<1>4. /\ files' = files
      /\ export'[x].id = id /\ export'[x].next = 1 /\ export'[x].found = found
      /\ export'[x].request = request
      /\ request = "comparison" => export'[x].pc = "look"
      /\ export'[x].alone = (others = {})
  BY <1>1, <1>2, <1>3 DEF Start
<1>5. others = {}
  BY <1>4
<1>6. ASSUME NEW z \in Exporters \ {x}, Live(z)'
      PROVE  export'[z].id # id
  <2>1. Same(z)
    BY <1>6, OthersRest DEF Export
  <2> QED BY <1>2, <1>5, <1>6, <2>1 DEF Same, Live
<1>7. \A f \in found : files'[f.path] = f.content
  BY <1>3, <1>4
<1> QED BY <1>4, <1>6, <1>7 DEF Undisturbed

\* The JSON file that a report page found, once its time is taken over.
LEMMA FoundContent ==
    ASSUME EvidenceInv, NEW x \in Exporters, Live(x), export[x].next = 1,
           NEW f \in export[x].found, f.path[2] = "json", files[f.path] = f.content
    PROVE  /\ f.path = Path(x) /\ Path(x) \in DOMAIN files
           /\ f.content = Content(files[Path(x)].runs, files[Path(x)].generated_at, "json")
<1>1. /\ f.path \in Ids \X FileNames /\ f.content \in Contents
      /\ f.path[1] = export[x].id /\ f.path \in DOMAIN files
  BY LiveExport, ExportType DEF FilesOf, EvidenceInv
<1>2. Path(x) = <<export[x].id, "json">>
  BY LiveExport, NamesType
<1>3. f.path = Path(x)
  BY <1>1, <1>2
<1>4. f.content = [runs |-> f.content.runs, generated_at |-> f.content.generated_at]
  BY <1>1 DEF Contents
<1> QED BY <1>1, <1>3, <1>4 DEF Content

\* The names an exporter has written are not those it writes next.
LEMMA StillWritten ==
    ASSUME EvidenceInv, NEW x \in Exporters, Live(x), NEW i \in 1 .. export[x].next - 1,
           WrittenBy(x, i), NEW content, Put(Path(x), content),
           export'[x].id = export[x].id, export'[x].request = export[x].request,
           export'[x].runs = export[x].runs, export'[x].generated_at = export[x].generated_at
    PROVE  WrittenBy(x, i)'
<1>1. /\ export[x].request \in Requests
      /\ export[x].next \in 1 .. Len(Names(export[x].request))
      /\ Path(x) = <<export[x].id, Names(export[x].request)[export[x].next]>>
  BY LiveExport
<1>2. Names(export[x].request)[i] # Names(export[x].request)[export[x].next]
  BY <1>1, NamesType
<1>3. PICK path : path = <<export[x].id, Names(export[x].request)[i]>>
  OBVIOUS
<1>4. path # Path(x) /\ path \in DOMAIN files
  BY <1>1, <1>2, <1>3 DEF WrittenBy
<1>5. path \in DOMAIN files' /\ files'[path] = files[path]
  BY <1>4 DEF Put
<1> QED BY <1>3, <1>5 DEF WrittenBy

\* The others stay at their reports while an exporter goes on with its own.
LEMMA OthersElsewhere ==
    ASSUME EvidenceInv, AloneInv, NEW x \in Exporters, Live(x), export[x].alone, Export(x)
    PROVE  \A z \in Exporters \ {x} : Live(z)' => export'[z].id # export[x].id
<1> SUFFICES ASSUME NEW z \in Exporters \ {x}, Live(z)'
             PROVE  export'[z].id # export[x].id
  OBVIOUS
<1>1. Same(z)
  BY OthersRest
<1> QED BY <1>1 DEF AloneInv, Undisturbed, Same, Live

LEMMA AloneLooks ==
    ASSUME EvidenceInv, AloneInv, NEW x \in Exporters, Look(x), Live(x)', export'[x].alone
    PROVE  Undisturbed(x)'
<1> DEFINE e == export[x]
<1>1. /\ Live(x) /\ e.pc = "look" /\ files' = files /\ Export(x)
      /\ export \in [Exporters -> Exports]
  BY DEF Look, Live, Export, EvidenceInv, ReportTypeOK
<1>2. e.next = 1 /\ e.request = "comparison"
  BY <1>1 DEF EvidenceInv, ExportsInv, ExportInv
<1>3. /\ export'[x].pc = "open" /\ export'[x].next = 1 /\ export'[x].id = e.id
      /\ export'[x].runs = e.runs /\ export'[x].found = e.found
      /\ export'[x].request = "comparison" /\ e.alone
      /\ Path(x) \in DOMAIN files => /\ e.runs = files[Path(x)].runs
                                     /\ export'[x].generated_at = files[Path(x)].generated_at
  <2>1. \A how : ~ End(x, how) \/ how \in {"look", "check", "open", "close"}
    BY <1>1 DEF End, Live, Free
  <2> QED BY <1>1, <1>2, <2>1 DEF Look, Goto, Exports
<1>4. \A z \in Exporters \ {x} : Live(z)' => export'[z].id # e.id
  BY <1>1, <1>3, OthersElsewhere
<1>5. \A f \in e.found : f.path[2] = "json" =>
         f.content = Content(e.runs, export'[x].generated_at, "json")
  <2>1. \A f \in e.found : f.path[2] = "json" => files[f.path] = f.content
    BY <1>1, <1>2, <1>3 DEF AloneInv, Undisturbed
  <2> QED BY <1>1, <1>2, <1>3, <2>1, FoundContent
<1> QED BY <1>3, <1>4, <1>5 DEF Undisturbed

LEMMA AloneWrites ==
    ASSUME EvidenceInv, AloneInv, NEW x \in Exporters, Check(x) \/ Open(x) \/ Close(x),
           Live(x)', export'[x].alone
    PROVE  Undisturbed(x)'
<1> DEFINE e == export[x]
<1>1. /\ Live(x) /\ e.pc # "look" /\ Export(x) /\ export \in [Exporters -> Exports]
      /\ e.next \in 1 .. Len(Names(e.request)) /\ e.request \in Requests
  <2>1. Live(x) /\ e.pc # "look" /\ Export(x) /\ export \in [Exporters -> Exports]
    BY DEF Check, Open, Close, Live, Export, EvidenceInv, ReportTypeOK
  <2> QED BY <2>1, LiveExport
<1>2. /\ export'[x].id = e.id /\ export'[x].request = e.request
      /\ export'[x].runs = e.runs /\ export'[x].generated_at = e.generated_at
      /\ export'[x].found = e.found /\ e.alone /\ export'[x].pc # "look"
      /\ \/ (Check(x) \/ Open(x)) /\ export'[x].next = e.next
         \/ Close(x) /\ export'[x].next = e.next + 1
  <2>1. \A how \in {"done", "refused"} : ~ End(x, how)
    BY <1>1 DEF End, Live, Free
  <2>2. CASE Check(x)
    BY <1>1, <2>1, <2>2 DEF Check, Goto, Exports
  <2>3. CASE Open(x)
    BY <1>1, <2>3 DEF Open, Goto, Exports
  <2>4. CASE Close(x)
    BY <1>1, <2>1, <2>4 DEF Close, Exports
  <2> QED BY <2>2, <2>3, <2>4
<1>3. Undisturbed(x)
  BY <1>1, <1>2 DEF AloneInv
<1>4. \A i \in 1 .. e.next - 1 : WrittenBy(x, i)'
  <2>1. CASE Check(x)
    BY <1>2, <1>3, <2>1 DEF Check, Undisturbed, WrittenBy
  <2>2. CASE Open(x) \/ Close(x)
    <3>1. \E content : Put(Path(x), content)
      BY <2>2 DEF Open, Close
    <3> QED BY <1>1, <1>2, <1>3, <3>1, StillWritten DEF Undisturbed
  <2> QED BY <2>1, <2>2
<1>5. ASSUME Close(x), NEW n, n = e.next PROVE WrittenBy(x, n)'
  <2>1. PICK path : path = <<e.id, Names(e.request)[n]>>
    OBVIOUS
  <2>2. Put(path, Content(e.runs, e.generated_at, path[2]))
    BY <1>1, <1>5, <2>1, LiveExport DEF Close
  <2>3. path \in DOMAIN files' /\ files'[path] = Content(e.runs, e.generated_at, path[2])
    BY <2>2 DEF Put
  <2> QED BY <1>2, <2>1, <2>3 DEF WrittenBy
<1>6. \A i \in 1 .. export'[x].next - 1 : WrittenBy(x, i)'
  <2>1. CASE export'[x].next = e.next
    BY <1>4, <2>1
  <2>2. CASE Close(x) /\ export'[x].next = e.next + 1
    <3>1. \A i \in 1 .. e.next : i \in 1 .. e.next - 1 \/ i = e.next
      BY <1>1
    <3>2. export'[x].next - 1 = e.next
      BY <1>1, <2>2
    <3> QED BY <1>4, <1>5, <2>2, <3>1, <3>2
  <2> QED BY <1>2, <2>1, <2>2
<1>7. \A z \in Exporters \ {x} : Live(z)' => export'[z].id # e.id
  BY <1>1, <1>2, OthersElsewhere
<1>8. e.request = "comparison" =>
         \A f \in e.found : f.path[2] = "json" =>
            f.content = Content(e.runs, e.generated_at, "json")
  BY <1>1, <1>3 DEF Undisturbed
<1> QED BY <1>2, <1>6, <1>7, <1>8 DEF Undisturbed

LEMMA AloneStep ==
    ASSUME EvidenceInv, AloneInv, [ReportNext]_<<vars, exporting>>
    PROVE  AloneInv'
<1>1. CASE UNCHANGED exporting
  BY <1>1 DEF exporting, AloneInv, Undisturbed, WrittenBy, Live
<1>2. ASSUME NEW y \in Exporters, Export(y), NEW x \in Exporters, Live(x)', export'[x].alone
      PROVE  Undisturbed(x)'
  <2>1. CASE x # y
    BY <1>2, <2>1, AloneAside
  <2>2. CASE x = y
    <3>1. ~ Stop(x)
      BY <1>2 DEF Stop, End, Live, Free, EvidenceInv, ReportTypeOK
    <3>2. Export(x)
      BY <1>2, <2>2
    <3> QED BY <1>2, <3>1, <3>2, AloneStarts, AloneLooks, AloneWrites DEF Export
  <2> QED BY <2>1, <2>2
<1> QED BY <1>1, <1>2 DEF ReportNext, AloneInv

\* An exporter that is alone at its report has written all before the next file.
THEOREM ReportInvariance == ReportSpec => []ReportInv
<1>1. ReportInit => AloneInv
  BY DEF ReportInit, AloneInv, Live, Free
<1>2. EvidenceInv /\ AloneInv /\ [ReportNext]_<<vars, exporting>> => AloneInv'
  BY AloneStep
<1> QED BY <1>1, <1>2, EvidenceInit, EvidenceStep, PTL DEF ReportSpec, ReportInv

\* An export that ends well and undisturbed leaves the whole report behind, of one
\* generation; a comparison keeps the time of the report it found.
THEOREM WholeReports == ReportSpec => ReportIsWhole
<1> DEFINE Done(x) ==
       LET e == export[x]
       IN  e.pc = "close" /\ export'[x].pc = "done" /\ e.alone =>
              /\ \A i \in DOMAIN Names(e.request) :
                    LET name == Names(e.request)[i]
                    IN  /\ <<e.id, name>> \in DOMAIN files'
                        /\ files'[<<e.id, name>>] = Content(e.runs, e.generated_at, name)
              /\ e.request = "comparison" =>
                    \A f \in e.found : f.path[2] = "json" => files'[f.path] = f.content
<1>1. ASSUME ReportInv, [ReportNext]_<<vars, exporting>>, NEW x \in Exporters
      PROVE  Done(x)
  <2> DEFINE e == export[x]
  <2> SUFFICES ASSUME e.pc = "close", export'[x].pc = "done", e.alone
               PROVE  /\ \A i \in DOMAIN Names(e.request) :
                            /\ <<e.id, Names(e.request)[i]>> \in DOMAIN files'
                            /\ files'[<<e.id, Names(e.request)[i]>>] =
                                  Content(e.runs, e.generated_at, Names(e.request)[i])
                      /\ e.request = "comparison" =>
                            \A f \in e.found : f.path[2] = "json" => files'[f.path] = f.content
    OBVIOUS
  <2>1. /\ EvidenceInv /\ Live(x) /\ Undisturbed(x) /\ export \in [Exporters -> Exports]
        /\ e.request \in Requests
    <3>1. EvidenceInv /\ Live(x) /\ Undisturbed(x)
      BY <1>1 DEF ReportInv, AloneInv, Live
    <3> QED BY <3>1, LiveExport DEF EvidenceInv, ReportTypeOK
  <2>2. Close(x) /\ e.next = Len(Names(e.request))
    <3>1. PICK y \in Exporters : Export(y)
      BY <1>1 DEF ReportNext, exporting
    <3>2. y = x
      BY <2>1, <3>1, OthersRest DEF Same
    <3>3. Close(x)
      <4>1. e.pc \notin {"idle", "look", "check", "open"} /\ ~ End(x, "stopped")
        BY <2>1 DEF End, Free
      <4>2. Export(x)
        BY <3>1, <3>2
      <4> QED BY <4>1, <4>2 DEF Export, Start, Look, Check, Open, Stop
    <3> QED BY <2>1, <3>3 DEF Close, Exports
  <2>3. /\ DOMAIN Names(e.request) = 1 .. e.next /\ e.next \in Nat
        /\ Names(e.request)[1] = "json"
    BY <2>1, <2>2, NamesType
  <2>4. Put(Path(x), Content(e.runs, e.generated_at, Path(x)[2]))
        /\ Path(x) = <<e.id, Names(e.request)[e.next]>>
    BY <2>1, <2>2, LiveExport DEF Close
  <2>5. ASSUME NEW i \in 1 .. e.next
        PROVE  /\ <<e.id, Names(e.request)[i]>> \in DOMAIN files'
               /\ files'[<<e.id, Names(e.request)[i]>>] =
                     Content(e.runs, e.generated_at, Names(e.request)[i])
    <3>1. CASE i = e.next
      BY <2>4, <3>1 DEF Put
    <3>2. CASE i # e.next
      <4>1. i \in 1 .. e.next - 1 /\ WrittenBy(x, i)
        BY <2>1, <2>3, <3>2 DEF Undisturbed
      <4>2. Names(e.request)[i] # Names(e.request)[e.next]
        BY <2>1, <2>2, <2>3, <3>2, NamesType
      <4> QED BY <2>4, <4>1, <4>2 DEF Put, WrittenBy
    <3> QED BY <3>1, <3>2
  <2>6. ASSUME e.request = "comparison", NEW f \in e.found, f.path[2] = "json"
        PROVE  files'[f.path] = f.content
    <3>1. f.content = Content(e.runs, e.generated_at, "json")
      BY <2>1, <2>6 DEF Undisturbed
    <3>2. f.path = <<e.id, "json">>
      <4>1. f.path \in Ids \X FileNames /\ f.path[1] = e.id
        BY <2>1, LiveExport, ExportType DEF FilesOf, EvidenceInv
      <4> QED BY <2>6, <4>1
    <3>3. 1 \in 1 .. e.next
      BY <2>1, <2>2, NamesType
    <3> QED BY <2>3, <2>5, <3>1, <3>2, <3>3
  <2> QED BY <2>3, <2>5, <2>6
<1>2. ReportInv /\ [ReportNext]_<<vars, exporting>> => [\A x \in Exporters : Done(x)]_<<files, export>>
  BY <1>1
<1> QED BY <1>2, ReportInvariance, PTL DEF ReportSpec, ReportIsWhole

-----------------------------------------------------------------------------
(* What the analysis makes of any selection of runs. *)

\* Every set of finite sets has a smallest one.
LEMMA SmallestSubset ==
    ASSUME NEW S, IsFiniteSet(S), NEW T \in SUBSET (SUBSET S), T # {}
    PROVE  \E x \in T : \A y \in T : y \subseteq x => y = x
<1>1. IsWellFoundedOn(StrictSubsetOrdering(S), SUBSET S)
  BY FS_StrictSubsetOrderingWellFounded, FS_FiniteSubsetsOfFinite
<1>2. \E x \in T : \A y \in T : ~ (<<y, x>> \in StrictSubsetOrdering(S))
  BY <1>1, WFMin
<1>3. \A x, y \in T : y \subseteq x /\ y # x => <<y, x>> \in StrictSubsetOrdering(S)
  BY DEF StrictSubsetOrdering
<1> QED BY <1>2, <1>3

LEMMA DisjointUnion ==
    ASSUME NEW x, NEW y, IsFiniteSet(x), IsFiniteSet(y), x \cap y = {}
    PROVE  Cardinality(x \cup y) = Cardinality(x) + Cardinality(y)
<1>1. Cardinality(x \cup y) = Cardinality(x) + Cardinality(y) - Cardinality({})
  BY FS_Union
<1>2. Cardinality({}) = 0 /\ Cardinality(x) \in Nat /\ Cardinality(y) \in Nat
  BY FS_EmptySet, FS_CardinalityType
<1> QED BY <1>1, <1>2

\* The parts of one field, and what they make together.
Parts(rows, field) == UNION {row.summary[field] : row \in rows}

LEMMA PartsHave ==
    ASSUME NEW rows, NEW field, NEW v
    PROVE  v \in Parts(rows, field) <=> \E row \in rows : v \in row.summary[field]
BY Zenon DEF Parts

LEMMA PartsAreFinite ==
    ASSUME NEW rows, IsFiniteSet(rows), NEW field, \A row \in rows : IsFiniteSet(row.summary[field])
    PROVE  IsFiniteSet(Parts(rows, field))
<1> DEFINE f == [row \in rows |-> row.summary[field]]
           T == {row.summary[field] : row \in rows}
<1>1. f \in Surjection(rows, T)
  <2>1. f \in [rows -> T]
    OBVIOUS
  <2>2. \A t \in T : \E row \in rows : f[row] = t
    OBVIOUS
  <2> QED BY <2>1, <2>2 DEF Surjection
<1>2. \A t \in T : IsFiniteSet(t)
  OBVIOUS
<1>3. Parts(rows, field) = UNION T
  BY DEF Parts
<1> HIDE DEF f, T
<1>4. IsFiniteSet(T)
  BY <1>1, FS_Surjection
<1> QED BY <1>2, <1>3, <1>4, FS_UNION

\* The sum over sets without a common member counts their union.
LEMMA SumIsUnion ==
    ASSUME NEW rows, IsFiniteSet(rows), NEW field,
           \A row \in rows : IsFiniteSet(row.summary[field]),
           \A a, b \in rows : a # b => a.summary[field] \cap b.summary[field] = {}
    PROVE  MapThenSumSet(LAMBDA row : Cardinality(row.summary[field]), rows)
              = Cardinality(Parts(rows, field))
<1> DEFINE first(s) == CHOOSE x \in s : TRUE
           Defined(f) == [s \in SUBSET rows |->
                          IF s = {} THEN 0
                          ELSE Cardinality(first(s).summary[field]) + f[s \ {first(s)}]]
           iter == CHOOSE f : f = Defined(f)
           count == [s \in SUBSET rows |-> Cardinality(Parts(s, field))]
<1>1. MapThenSumSet(LAMBDA row : Cardinality(row.summary[field]), rows) = iter[rows]
  BY DEF MapThenSumSet, MapThenFoldSet
<1>2. ASSUME NEW s \in SUBSET rows, s # {}
      PROVE  /\ first(s) \in rows /\ s \ {first(s)} \in SUBSET rows
             /\ Cardinality(Parts(s, field)) = Cardinality(first(s).summary[field])
                                               + Cardinality(Parts(s \ {first(s)}, field))
  <2>1. first(s) \in s
    BY <1>2
  <2> HIDE DEF first
  <2>2. first(s) \in rows /\ s \ {first(s)} \in SUBSET rows
    BY <2>1
  <2>3. PICK a \in s : a = first(s)
    BY <2>1
  <2>4. PICK rest : rest = s \ {a}
    OBVIOUS
  <2>5. a \in rows /\ rest \subseteq rows /\ a \notin rest /\ \A b : b \in s <=> b = a \/ b \in rest
    BY <2>2, <2>3, <2>4
  <2>6. Parts(s, field) = a.summary[field] \cup Parts(rest, field)
    <3>1. \A v : v \in Parts(s, field) <=> v \in a.summary[field] \/ v \in Parts(rest, field)
      BY <2>5, PartsHave
    <3> QED BY <3>1
  <2>7. a.summary[field] \cap Parts(rest, field) = {}
    <3>1. \A row \in rest : a.summary[field] \cap row.summary[field] = {}
      BY <2>5
    <3> QED BY <3>1, PartsHave
  <2>8. IsFiniteSet(a.summary[field]) /\ IsFiniteSet(Parts(rest, field))
    <3>1. IsFiniteSet(rest)
      BY <2>5, FS_Subset
    <3>2. \A row \in rest : IsFiniteSet(row.summary[field])
      BY <2>5
    <3> QED BY <2>5, <3>1, <3>2, PartsAreFinite
  <2>9. Cardinality(Parts(s, field)) = Cardinality(a.summary[field]) + Cardinality(Parts(rest, field))
    BY <2>6, <2>7, <2>8, DisjointUnion
  <2> QED BY <2>2, <2>3, <2>4, <2>9
<1>3. count = Defined(count)
  <2>1. ASSUME NEW s \in SUBSET rows
        PROVE  count[s] = IF s = {} THEN 0
                          ELSE Cardinality(first(s).summary[field]) + count[s \ {first(s)}]
    <3>1. CASE s = {}
      <4>1. Parts(s, field) = {} /\ Cardinality({}) = 0
        BY <3>1, PartsHave, FS_EmptySet
      <4> QED BY <3>1, <4>1
    <3>2. CASE s # {}
      <4> HIDE DEF first
      <4> QED BY <1>2, <3>2
    <3> QED BY <3>1, <3>2
  <2> HIDE DEF first
  <2> QED BY <2>1
<1>4. iter = Defined(iter)
  <2> HIDE DEF Defined, count
  <2> QED BY <1>3
<1>5. \A s \in SUBSET rows : iter[s] = count[s]
  <2> DEFINE wrong == {s \in SUBSET rows : iter[s] # count[s]}
  <2> SUFFICES ASSUME wrong # {} PROVE FALSE
    OBVIOUS
  <2>1. PICK s \in wrong : \A t \in wrong : t \subseteq s => t = s
    <3> HIDE DEF iter, count
    <3>1. wrong \in SUBSET (SUBSET rows)
      OBVIOUS
    <3> HIDE DEF wrong
    <3> QED BY <3>1, SmallestSubset
  <2>2. s \in SUBSET rows /\ iter[s] # count[s]
    <3> HIDE DEF iter, count
    <3> QED BY <2>1
  <2>3. /\ iter[s] = IF s = {} THEN 0
                     ELSE Cardinality(first(s).summary[field]) + iter[s \ {first(s)}]
        /\ count[s] = IF s = {} THEN 0
                      ELSE Cardinality(first(s).summary[field]) + count[s \ {first(s)}]
    <3> HIDE DEF iter, count, first
    <3> QED BY <1>3, <1>4, <2>2
  <2>4. s # {}
    <3> HIDE DEF iter, count, first
    <3> QED BY <2>2, <2>3
  <2>5. first(s) \in s
    BY <2>4
  <2>6. s \ {first(s)} \notin wrong
    <3> HIDE DEF iter, count, first, wrong
    <3> QED BY <2>1, <2>5
  <2>7. iter[s \ {first(s)}] = count[s \ {first(s)}]
    <3> HIDE DEF iter, count, first
    <3> QED BY <2>2, <2>6
  <2> HIDE DEF iter, count, first, wrong
  <2> QED BY <2>2, <2>3, <2>4, <2>7
<1> QED
  <2> HIDE DEF iter
  <2> QED BY <1>1, <1>5
\* There is a reference wherever there is the objective of an exact run.
LEMMA ReferenceIsThere ==
    ASSUME CampaignCore, NEW S \in SUBSET saved, NEW p
    PROVE  Reference(p, S) # Nothing <=> \E e \in Observed(Of(p, S)) : e.solver = "exact"
<1>1. ASSUME Reference(p, S) # Nothing
      PROVE  \E e \in Observed(Of(p, S)) : e.solver = "exact"
  <2>1. Sole(References(p, S)) # {}
    BY <1>1 DEF Reference
  <2>2. PICK v : v \in References(p, S)
    BY <2>1 DEF Sole
  <2> QED BY <2>2 DEF References, Observed
<1>2. ASSUME NEW e \in Observed(Of(p, S)), e.solver = "exact"
      PROVE  Reference(p, S) # Nothing
  <2>1. e \in saved /\ e \in Of(p, S) /\ e.problem = p /\ e.objective # Nothing
    BY DEF Observed, Of
  <2>2. p \in DOMAIN Objectives /\ Objectives[p] # {}
    BY <2>1, ObjectiveType
  <2>3. ASSUME NEW v \in References(p, S) PROVE v = Optimum(p)
    <3>1. PICK run \in S : /\ run.problem = p /\ run.solver = "exact"
                          /\ run.objective # Nothing /\ v = run.objective
      BY DEF References, Of
    <3>2. v \in Best(p)
      BY <3>1 DEF CampaignCore, Honest
    <3> QED BY <2>2, <3>2, OptimumIsBest
  <2>4. e.objective \in References(p, S)
    BY <1>2, <2>1 DEF References
  <2>5. References(p, S) = {Optimum(p)}
    BY <2>3, <2>4
  <2>6. Sole(References(p, S)) = {Optimum(p)}
    BY <2>5 DEF Sole
  <2>7. Reference(p, S) = Optimum(p)
    BY <2>6 DEF Reference
  <2>8. Optimum(p) \in Objectives[p] /\ Nothing \notin Objectives[p]
    BY <2>2, OptimumIsBest, CampaignAssumption
  <2> QED BY <2>7, <2>8
<1> QED BY <1>1, <1>2

\* Of what its filters leave a query drops no run that has an objective.
LEMMA ApplicableRuns ==
    ASSUME CampaignCore, NEW S \in SUBSET saved, NEW query
    PROVE  /\ Applicable(S, query) \in SUBSET Filtered(S, query.filters)
           /\ Filtered(S, query.filters) \in SUBSET S
           /\ \A run \in Filtered(S, query.filters) :
                 run.objective # Nothing => run \in Applicable(S, query)
<1>1. \A run \in S : run.objective # Nothing => run.status = "success"
  BY DEF CampaignCore, TypeOK
<1> QED BY <1>1 DEF Applicable, Filtered

\* Of finitely many runs one is nearest to the optimum.
LEMMA NearestRun ==
    ASSUME CampaignCore, NEW G \in SUBSET saved, Observed(G) # {}
    PROVE  \E best \in Observed(G) : \A run \in Observed(G) : Distance(best) <= Distance(run)
<1> DEFINE nearer(run) == {r \in Observed(G) : Distance(r) < Distance(run)}
           T == {nearer(run) : run \in Observed(G)}
<1>1. /\ Observed(G) \subseteq saved
      /\ \A run \in Observed(G) : Distance(run) \in Int
  BY ObjectiveType DEF Observed
<1>2. IsFiniteSet(Observed(G))
  BY <1>1, FS_Subset DEF CampaignCore, TypeOK
<1>3. PICK best \in Observed(G) : \A y \in T : y \subseteq nearer(best) => y = nearer(best)
  <2>1. T \in SUBSET (SUBSET Observed(G)) /\ T # {}
    OBVIOUS
  <2>2. \E x \in T : \A y \in T : y \subseteq x => y = x
    <3> HIDE DEF T
    <3> QED BY <1>2, <2>1, SmallestSubset
  <2> QED BY <2>2
<1>4. ASSUME NEW run \in Observed(G), ~ (Distance(best) <= Distance(run))
      PROVE  FALSE
  <2>1. Distance(best) \in Int /\ Distance(run) \in Int /\ Distance(run) < Distance(best)
    BY <1>1, <1>4
  <2>2. nearer(run) \subseteq nearer(best)
    BY <1>1, <2>1
  <2>3. run \in nearer(best) /\ run \notin nearer(run)
    BY <2>1
  <2>4. nearer(run) = nearer(best)
    BY <1>3, <2>2
  <2> QED BY <2>3, <2>4
<1> QED BY <1>4

\* Among the runs of one problem a better objective is one nearer to the optimum.
LEMMA BetterIsNearer ==
    ASSUME CampaignCore, NEW l \in saved, NEW r \in saved, l.problem = r.problem,
           l.objective # Nothing, r.objective # Nothing
    PROVE  (IF Sense[l.problem] = "maximize" THEN l.objective >= r.objective
                                             ELSE l.objective <= r.objective)
           <=> Distance(l) <= Distance(r)
<1>1. /\ l.objective \in Int /\ r.objective \in Int /\ Optimum(l.problem) \in Int
      /\ Optimum(r.problem) = Optimum(l.problem) /\ Sense[r.problem] = Sense[l.problem]
  BY ObjectiveType
<1>2. CASE Sense[l.problem] = "maximize"
  BY <1>1, <1>2 DEF Distance
<1>3. CASE Sense[l.problem] # "maximize"
  BY <1>1, <1>3 DEF Distance
<1> QED BY <1>2, <1>3

\* The best objective of runs of one problem is that of the nearest one.
LEMMA BestIsNearest ==
    ASSUME CampaignCore, NEW G \in SUBSET saved, NEW p, \A run \in G : run.problem = p,
           NEW run \in Observed(G)
    PROVE  \E best \in Observed(G) :
              best.objective = BestObjective(G) /\ Distance(best) <= Distance(run)
<1> DEFINE values == {r.objective : r \in Observed(G)}
           Better(v, w) == IF Sense[p] = "maximize" THEN v >= w ELSE v <= w
<1>1. /\ Observed(G) \subseteq saved
      /\ \A r \in Observed(G) : r.problem = p /\ r.objective # Nothing /\ r \in saved
  BY DEF Observed
<1>2. DominantSense(Observed(G)) = Sense[p]
  <2>1. {Sense[r.problem] : r \in Observed(G)} = {Sense[p]}
    BY <1>1
  <2>2. Sole({Sense[r.problem] : r \in Observed(G)}) = {Sense[p]}
    BY <2>1 DEF Sole
  <2> QED BY <2>2 DEF DominantSense
<1>3. PICK nearest \in Observed(G) : \A r \in Observed(G) : Distance(nearest) <= Distance(r)
  BY NearestRun
<1>4. \A r \in Observed(G) : Better(nearest.objective, r.objective)
  BY <1>1, <1>3, BetterIsNearer
<1>5. \E v \in values : \A w \in values : Better(v, w)
  BY <1>4
<1>6. BestObjective(G) \in values /\ \A w \in values : Better(BestObjective(G), w)
  <2>1. BestObjective(G) = CHOOSE v \in values : \A w \in values : Better(v, w)
    BY <1>2, <1>5 DEF BestObjective
  <2> HIDE DEF values, Better
  <2> QED BY <1>5, <2>1
<1>7. PICK best \in Observed(G) : best.objective = BestObjective(G)
  BY <1>6
<1>8. Better(best.objective, run.objective)
  BY <1>6, <1>7
<1> QED BY <1>1, <1>7, <1>8, BetterIsNearer

LEMMA InvRatesGroups ==
    ASSUME CampaignCore, NEW S \in SUBSET saved, NEW query
    PROVE  GroupsAreTrue(S, query)
<1> DEFINE applicable == Applicable(S, query)
           left == Filtered(S, query.filters)
<1>1. /\ applicable \in SUBSET left /\ applicable \in SUBSET saved
      /\ \A run \in left : run.objective # Nothing => run \in applicable
  BY ApplicableRuns
<1> HIDE DEF applicable, left
<1> SUFFICES ASSUME NEW group \in Groups(S, query)
             PROVE  LET quality == Quality(group.runs, applicable)
                    IN  /\ quality.rated =
                              {run \in Observed(group.runs) :
                                  \E e \in Observed(Of(run.problem, left)) : e.solver = "exact"}
                        /\ quality.at_optimum = {run \in quality.rated : Distance(run) = 0}
                        /\ Cardinality({run.problem : run \in group.runs}) = 1 =>
                              \A run \in Observed(group.runs) :
                                 \E best \in Observed(group.runs) :
                                    /\ best.objective = quality.best_objective
                                    /\ Distance(best) <= Distance(run)
  BY DEF GroupsAreTrue, applicable, left
<1>2. group.runs \subseteq applicable
  BY DEF Groups, applicable
<1>3. \A p : (\E e \in Observed(Of(p, left)) : e.solver = "exact") <=> Reference(p, applicable) # Nothing
  <2> SUFFICES ASSUME NEW p
               PROVE  (\E e \in Observed(Of(p, left)) : e.solver = "exact")
                      <=> Reference(p, applicable) # Nothing
    OBVIOUS
  <2>1. Observed(Of(p, left)) = Observed(Of(p, applicable))
    BY <1>1 DEF Observed, Of
  <2> QED BY <1>1, <2>1, ReferenceIsThere
<1>4. Rated(group.runs, applicable) =
         {run \in Observed(group.runs) :
             \E e \in Observed(Of(run.problem, left)) : e.solver = "exact"}
  <2>1. \A run : run \in Rated(group.runs, applicable) <=>
           /\ run \in Observed(group.runs)
           /\ \E e \in Observed(Of(run.problem, left)) : e.solver = "exact"
    BY <1>3 DEF Rated, Observed
  <2> QED BY <2>1
<1>5. AtOptimum(group.runs, applicable)
         = {run \in Rated(group.runs, applicable) : Distance(run) = 0}
  <2>1. ASSUME NEW run \in Rated(group.runs, applicable)
        PROVE  run.objective = Reference(run.problem, applicable) <=> Distance(run) = 0
    <3>1. /\ run \in saved /\ run.objective # Nothing
          /\ Reference(run.problem, applicable) = Optimum(run.problem)
      BY <1>1, <1>2, ReferenceIsOptimum DEF Rated
    <3>2. run.objective \in Int /\ Optimum(run.problem) \in Int
      BY <3>1, ObjectiveType
    <3> QED BY <3>1, <3>2 DEF Distance
  <2> QED BY <2>1 DEF AtOptimum
<1>6. ASSUME Cardinality({run.problem : run \in group.runs}) = 1, NEW run \in Observed(group.runs)
      PROVE  \E best \in Observed(group.runs) :
                best.objective = BestObjective(group.runs) /\ Distance(best) <= Distance(run)
  <2>1. group.runs \in SUBSET saved
    BY <1>1, <1>2
  <2> DEFINE problems == {r.problem : r \in group.runs}
             f == [r \in group.runs |-> r.problem]
  <2>2. IsFiniteSet(problems)
    <3>1. f \in Surjection(group.runs, problems)
      BY DEF Surjection
    <3>2. IsFiniteSet(group.runs)
      BY <2>1, FS_Subset DEF CampaignCore, TypeOK
    <3> HIDE DEF f, problems
    <3> QED BY <3>1, <3>2, FS_Surjection
  <2>3. PICK p : problems = {p}
    <3> HIDE DEF f, problems
    <3>1. Cardinality(problems) = 1
      BY <1>6 DEF problems
    <3> QED BY <2>2, <3>1, FS_Singleton
  <2>4. \A r \in group.runs : r.problem = p
    BY <2>3
  <2> QED BY <2>1, <2>4, BestIsNearest
<1>7. /\ Quality(group.runs, applicable).rated = Rated(group.runs, applicable)
      /\ Quality(group.runs, applicable).at_optimum = AtOptimum(group.runs, applicable)
      /\ Quality(group.runs, applicable).best_objective = BestObjective(group.runs)
  BY DEF Quality
<1> QED BY <1>4, <1>5, <1>6, <1>7

\* The runs of one solver on one problem.
Made(S, p, solver) == {run \in Of(p, S) : run.solver = solver}

\* The groups by problem and solver are these.
LEMMA DefaultGroups ==
    ASSUME NEW S
    PROVE  LET groups == Groups(S, Everything(Default))
           IN  /\ \A g \in groups :
                     /\ Default \subseteq DOMAIN g.key
                     /\ g.runs = Made(S, g.key.problem, g.key.solver)
                     /\ \E run \in S : run.problem = g.key.problem /\ run.solver = g.key.solver
               /\ \A run \in S : \E g \in groups :
                     g.key.problem = run.problem /\ g.key.solver = run.solver
<1> DEFINE query == Everything(Default)
           groups == Groups(S, query)
           KeyOf(run) == GroupKey(run, Default)
           GroupOf(key) == [key |-> key, runs |-> {run \in S : KeyOf(run) = key}]
<1>1. Applicable(S, query) = S /\ query.group_by = Default
  <2>1. /\ query.group_by = Default /\ query.include_failed = TRUE
        /\ query.include_unavailable = TRUE /\ query.filters = << >>
    BY DEF Everything
  <2>2. DOMAIN << >> = {}
    OBVIOUS
  <2>3. \A run \in S : run \in Applicable(S, query)
    <3> HIDE DEF query
    <3> QED BY <2>1, <2>2 DEF Applicable, Filtered
  <2> QED BY <2>1, <2>3 DEF Applicable, Filtered
<1>2. Default # {}
  BY DEF Default
<1>3. \A g : g \in groups <=> \E run \in S : g = GroupOf(KeyOf(run))
  <2>1. groups = {GroupOf(key) : key \in {KeyOf(run) : run \in S}}
    <3> HIDE DEF query
    <3> QED BY Zenon, <1>1, <1>2 DEF Groups
  <2> HIDE DEF GroupOf, KeyOf, groups
  <2> QED BY Zenon, <2>1
<1>4. ASSUME NEW run
      PROVE  /\ KeyOf(run).problem = run.problem /\ KeyOf(run).solver = run.solver
             /\ DOMAIN KeyOf(run) = Default
  BY DEF GroupKey, Default
<1>5. ASSUME NEW run, NEW other
      PROVE  KeyOf(run) = KeyOf(other) <=>
                run.problem = other.problem /\ run.solver = other.solver
  <2>1. ASSUME run.problem = other.problem, run.solver = other.solver
        PROVE  \A field \in Default : run[field] = other[field]
    BY <2>1 DEF Default
  <2>2. run.problem = other.problem /\ run.solver = other.solver => KeyOf(run) = KeyOf(other)
    BY <2>1 DEF GroupKey
  <2> QED BY <1>4, <2>2
<1>6. ASSUME NEW run \in S
      PROVE  /\ GroupOf(KeyOf(run)).key = KeyOf(run)
             /\ GroupOf(KeyOf(run)).runs = Made(S, run.problem, run.solver)
  <2>1. GroupOf(KeyOf(run)).runs = {x \in S : KeyOf(x) = KeyOf(run)}
    OBVIOUS
  <2>2. \A x : x \in {y \in S : KeyOf(y) = KeyOf(run)} <=> x \in Made(S, run.problem, run.solver)
    <3> HIDE DEF KeyOf
    <3> QED BY <1>5 DEF Made, Of
  <2> HIDE DEF KeyOf
  <2> QED BY <2>1, <2>2
<1> HIDE DEF GroupOf, KeyOf
<1>7. ASSUME NEW g \in groups
      PROVE  /\ Default \subseteq DOMAIN g.key
             /\ g.runs = Made(S, g.key.problem, g.key.solver)
             /\ \E run \in S : run.problem = g.key.problem /\ run.solver = g.key.solver
  <2>1. PICK run \in S : g = GroupOf(KeyOf(run))
    BY <1>3
  <2> QED BY <1>4, <1>6, <2>1
<1>8. ASSUME NEW run \in S
      PROVE  \E g \in groups : g.key.problem = run.problem /\ g.key.solver = run.solver
  <2>1. GroupOf(KeyOf(run)) \in groups
    BY <1>3
  <2> QED BY <1>4, <1>6, <2>1
<1> QED BY <1>7, <1>8

\* What the comparisons find in these groups.
LEMMA DefaultRows ==
    ASSUME NEW S
    PROVE  LET groups == Groups(S, Everything(Default))
           IN  /\ \A p : p \in ProblemsOf(groups) <=> \E run \in S : run.problem = p
               /\ \A p, solver : solver \in SolversOf(p, groups) <=>
                     \E run \in S : run.problem = p /\ run.solver = solver
               /\ \A p, solver : solver \in SolversOf(p, groups) =>
                     LastGroup(p, solver, groups).runs = Made(S, p, solver)
<1> DEFINE groups == Groups(S, Everything(Default))
<1>1. /\ \A g \in groups :
            /\ Default \subseteq DOMAIN g.key
            /\ g.runs = Made(S, g.key.problem, g.key.solver)
            /\ \E run \in S : run.problem = g.key.problem /\ run.solver = g.key.solver
      /\ \A run \in S : \E g \in groups :
            g.key.problem = run.problem /\ g.key.solver = run.solver
  BY DefaultGroups
<1> HIDE DEF groups
<1>2. Compared(groups) = groups
  BY <1>1 DEF Compared
<1>3. \A p : p \in ProblemsOf(groups) <=> \E g \in groups : g.key.problem = p
  BY Zenon, <1>2 DEF ProblemsOf
<1>4. \A p, solver : solver \in SolversOf(p, groups) <=>
         \E g \in groups : g.key.problem = p /\ g.key.solver = solver
  <2> SUFFICES ASSUME NEW p, NEW solver
               PROVE  solver \in SolversOf(p, groups) <=>
                         \E g \in groups : g.key.problem = p /\ g.key.solver = solver
    OBVIOUS
  <2>1. SolversOf(p, groups) = {g.key.solver : g \in {x \in groups : x.key.problem = p}}
    BY <1>2 DEF SolversOf
  <2> QED BY Zenon, <2>1
<1>5. ASSUME NEW p, NEW solver, solver \in SolversOf(p, groups)
      PROVE  LastGroup(p, solver, groups).runs = Made(S, p, solver)
  <2>1. \E g \in groups : g.key.problem = p /\ g.key.solver = solver
    BY <1>4, <1>5
  <2>2. LastGroup(p, solver, groups)
           = CHOOSE g \in groups : g.key.problem = p /\ g.key.solver = solver
    BY <1>2 DEF LastGroup
  <2>3. /\ LastGroup(p, solver, groups) \in groups
        /\ LastGroup(p, solver, groups).key.problem = p
        /\ LastGroup(p, solver, groups).key.solver = solver
    BY <2>1, <2>2
  <2> QED BY <1>1, <2>3
<1>6. \A p : (\E g \in groups : g.key.problem = p) <=> \E run \in S : run.problem = p
  BY <1>1
<1>7. \A p, solver : (\E g \in groups : g.key.problem = p /\ g.key.solver = solver)
                     <=> \E run \in S : run.problem = p /\ run.solver = solver
  BY <1>1
<1>8. /\ \A p : p \in ProblemsOf(groups) <=> \E run \in S : run.problem = p
      /\ \A p, solver : solver \in SolversOf(p, groups) <=>
            \E run \in S : run.problem = p /\ run.solver = solver
      /\ \A p, solver : solver \in SolversOf(p, groups) =>
            LastGroup(p, solver, groups).runs = Made(S, p, solver)
  BY <1>3, <1>4, <1>5, <1>6, <1>7
<1> QED BY Zenon, <1>8 DEF groups

LEMMA InvFormsRows ==
    ASSUME CampaignCore, NEW S \in SUBSET saved
    PROVE  RowsAreTrue(S)
<1> DEFINE groups == Groups(S, Everything(Default))
           rows == ClassicalVsQuantum(groups, S)
           RowOf(p, solvers) == Row(p, solvers, groups, S)
<1>1. /\ \A p : p \in ProblemsOf(groups) <=> \E run \in S : run.problem = p
      /\ \A p, solver : solver \in SolversOf(p, groups) <=>
            \E run \in S : run.problem = p /\ run.solver = solver
      /\ \A p, solver : solver \in SolversOf(p, groups) =>
            LastGroup(p, solver, groups).runs = Made(S, p, solver)
  BY DefaultRows
<1> HIDE DEF groups
<1>2. ASSUME NEW p, NEW solvers, solvers \subseteq SolversOf(p, groups)
      PROVE  /\ RowOf(p, solvers).problem = p
             /\ DOMAIN RowOf(p, solvers).of = solvers
             /\ \A solver \in solvers :
                   /\ RowOf(p, solvers).of[solver].run_ids = Made(S, p, solver)
                   /\ RowOf(p, solvers).of[solver].objective = BestObjective(Made(S, p, solver))
  <2>1. RowOf(p, solvers).problem = p /\ DOMAIN RowOf(p, solvers).of = solvers
    BY DEF Row
  <2>2. ASSUME NEW solver \in solvers
        PROVE  /\ RowOf(p, solvers).of[solver].run_ids = LastGroup(p, solver, groups).runs
               /\ RowOf(p, solvers).of[solver].objective
                     = BestObjective(LastGroup(p, solver, groups).runs)
    BY DEF Row
  <2> HIDE DEF RowOf
  <2> QED BY <1>1, <1>2, <2>1, <2>2
<1> DEFINE True(row) == \A solver \in DOMAIN row.of :
                           row.of[solver].run_ids = Made(S, row.problem, solver)
<1>3. ASSUME NEW p, NEW solvers, solvers \subseteq SolversOf(p, groups)
      PROVE  True(RowOf(p, solvers))
  <2> HIDE DEF RowOf
  <2> QED BY <1>2, <1>3
<1>4. ASSUME NEW row \in rows
      PROVE  \E p : "exact" \in SolversOf(p, groups) /\ row = RowOf(p, SolversOf(p, groups))
  <2> HIDE DEF RowOf
  <2> QED BY Zenon DEF ClassicalVsQuantum, RowOf
<1>5. ASSUME NEW row \in QiskitVsCudaq(groups, S) PROVE True(row)
  <2>1. \E p : row = RowOf(p, SolversOf(p, groups) \cap Quantum)
    BY Zenon DEF QiskitVsCudaq
  <2> HIDE DEF RowOf, True
  <2>2. \A p : SolversOf(p, groups) \cap Quantum \subseteq SolversOf(p, groups)
    OBVIOUS
  <2> QED BY <1>3, <2>1, <2>2
<1>6. ASSUME NEW row \in GpuVsCpu(groups, S) PROVE True(row)
  <2>1. \E p : {"cudaq-cpu", "cudaq-gpu"} \subseteq SolversOf(p, groups)
               /\ row = RowOf(p, {"cudaq-cpu", "cudaq-gpu"})
    BY Zenon DEF GpuVsCpu
  <2> HIDE DEF RowOf, True
  <2> QED BY <1>3, <2>1
<1>7. ASSUME NEW row \in rows
      PROVE  /\ True(row)
             /\ UNION {row.of[solver].run_ids : solver \in DOMAIN row.of} = Of(row.problem, S)
             /\ row.of["exact"].objective \in {Nothing} \cup Best(row.problem)
  <2>1. PICK p : "exact" \in SolversOf(p, groups) /\ row = RowOf(p, SolversOf(p, groups))
    BY <1>4
  <2> HIDE DEF RowOf
  <2>2. /\ row.problem = p /\ DOMAIN row.of = SolversOf(p, groups)
        /\ \A solver \in SolversOf(p, groups) :
              /\ row.of[solver].run_ids = Made(S, p, solver)
              /\ row.of[solver].objective = BestObjective(Made(S, p, solver))
    BY <1>2, <2>1
  <2>3. UNION {row.of[solver].run_ids : solver \in DOMAIN row.of} = Of(row.problem, S)
    <3> DEFINE all == UNION {row.of[solver].run_ids : solver \in DOMAIN row.of}
    <3>1. \A run : run \in all <=> \E solver \in DOMAIN row.of : run \in row.of[solver].run_ids
      BY Zenon
    <3> HIDE DEF all
    <3>2. \A run : run \in all <=> \E solver \in SolversOf(p, groups) : run \in Made(S, p, solver)
      BY <2>2, <3>1
    <3>3. \A run : run \in all <=> run \in Of(p, S)
      BY <1>1, <3>2 DEF Made, Of
    <3>4. all = Of(row.problem, S)
      BY <2>2, <3>3
    <3> QED BY <3>4 DEF all
  <2>4. BestObjective(Made(S, p, "exact")) \in {Nothing} \cup Best(p)
    <3> DEFINE exact == Observed(Made(S, p, "exact"))
               values == {run.objective : run \in exact}
    <3>1. ASSUME NEW run \in exact PROVE run.objective \in Best(p) /\ run \in saved
                                         /\ run.objective # Nothing /\ run.problem = p
      BY DEF Observed, Made, Of, CampaignCore, Honest
    <3>2. CASE values = {}
      BY <3>2 DEF BestObjective
    <3>3. CASE values # {}
      <4>1. PICK run \in exact : TRUE
        BY <3>3
      <4>2. p \in DOMAIN Objectives /\ Objectives[p] # {}
        BY <3>1, ObjectiveType
      <4>3. Optimum(p) \in Int /\ \A v \in values : v = Optimum(p)
        BY <3>1, <4>2, OptimumIsBest
      <4>4. \A v \in values : v \in Best(p)
        BY <3>1
      <4>5. \E v \in values : \A w \in values :
               IF DominantSense(exact) = "maximize" THEN v >= w ELSE v <= w
        BY <3>3, <4>3
      <4>6. BestObjective(Made(S, p, "exact")) = CHOOSE v \in values : \A w \in values :
               IF DominantSense(exact) = "maximize" THEN v >= w ELSE v <= w
        BY <3>3 DEF BestObjective
      <4> HIDE DEF values, exact
      <4>7. BestObjective(Made(S, p, "exact")) \in values
        BY <4>5, <4>6
      <4> QED BY <4>4, <4>7
    <3> QED BY <3>2, <3>3
  <2>5. True(row)
    BY <2>2
  <2> QED BY <2>1, <2>2, <2>3, <2>4, <2>5
<1>8. ASSUME NEW run \in S, run.solver \in Quantum
      PROVE  (run.problem \in WithoutBaseline(groups))
             # (\E row \in rows : row.problem = run.problem)
  <2>1. /\ run.problem \in ProblemsOf(groups)
        /\ run.solver \in SolversOf(run.problem, groups) \cap Quantum
    BY <1>1, <1>8
  <2>2. run.problem \in WithoutBaseline(groups)
           <=> "exact" \notin SolversOf(run.problem, groups)
    BY <2>1 DEF WithoutBaseline
  <2>3. (\E row \in rows : row.problem = run.problem)
           <=> "exact" \in SolversOf(run.problem, groups)
    <3>1. ASSUME NEW row \in rows, row.problem = run.problem
          PROVE  "exact" \in SolversOf(run.problem, groups)
      <4> HIDE DEF RowOf, rows
      <4> QED BY <1>2, <1>4, <3>1
    <3>2. ASSUME "exact" \in SolversOf(run.problem, groups)
          PROVE  \E row \in rows : row.problem = run.problem
      <4>1. RowOf(run.problem, SolversOf(run.problem, groups)) \in rows
        BY Zenon, <2>1, <3>2 DEF ClassicalVsQuantum
      <4> HIDE DEF RowOf, rows
      <4> QED BY <1>2, <4>1
    <3> QED BY <3>1, <3>2
  <2> QED BY <2>2, <2>3
<1> HIDE DEF RowOf
<1> QED BY <1>5, <1>6, <1>7, <1>8 DEF RowsAreTrue, Made, groups

\* The fields of a summary of some of the runs are the parts of the fields of all.
LEMMA SummaryOfPart ==
    ASSUME NEW S, NEW G, NEW B, B \subseteq G
    PROVE  /\ DOMAIN Summary(B, S) = DOMAIN Summary(G, S)
           /\ \A field \in DOMAIN Summary(G, S) :
                 /\ Summary(G, S)[field] \subseteq G
                 /\ Summary(B, S)[field] = Summary(G, S)[field] \cap B
<1>1. \A H : /\ DOMAIN Summary(H, S) = {"valid", "excluded", "reference_comparable", "optimum_achieved"}
             /\ Summary(H, S)["valid"] = Observed(H)
             /\ Summary(H, S)["excluded"] = H \ Observed(H)
             /\ Summary(H, S)["reference_comparable"] = Rated(H, S)
             /\ Summary(H, S)["optimum_achieved"] = AtOptimum(H, S)
  BY DEF Summary
<1>2. /\ Observed(G) \subseteq G /\ Observed(B) = Observed(G) \cap B
      /\ Rated(G, S) \subseteq G /\ Rated(B, S) = Rated(G, S) \cap B
  BY DEF Observed, Rated
<1>3. AtOptimum(G, S) \subseteq G /\ AtOptimum(B, S) = AtOptimum(G, S) \cap B
  BY <1>2 DEF AtOptimum
<1>4. B \ Observed(B) = (G \ Observed(G)) \cap B
  BY <1>2
<1> QED BY <1>1, <1>2, <1>3, <1>4

LEMMA InvCountsPages ==
    ASSUME CampaignCore, NEW S \in SUBSET saved
    PROVE  PagesAreTrue(S)
<1> SUFFICES ASSUME NEW p, NEW field \in DOMAIN Summary(Of(p, S), S)
             PROVE  LET all == Summary(Of(p, S), S)
                        rows == {[bucket |-> bucket, summary |-> Summary(bucket, S)] :
                                    bucket \in Buckets(p, S)}
                    IN  /\ all[field] = UNION {row.summary[field] : row \in rows}
                        /\ Cardinality(all[field]) =
                              MapThenSumSet(LAMBDA row : Cardinality(row.summary[field]), rows)
  BY DEF PagesAreTrue
<1> DEFINE all == Summary(Of(p, S), S)
           RowOf(bucket) == [bucket |-> bucket, summary |-> Summary(bucket, S)]
           rows == {RowOf(bucket) : bucket \in Buckets(p, S)}
           Like(c) == {run \in Of(p, S) : Configuration(run) = c}
<1>1. \A bucket : bucket \in Buckets(p, S) <=> \E run \in Of(p, S) : bucket = Like(Configuration(run))
  BY Zenon DEF Buckets
<1> HIDE DEF Like
<1>2. \A c, run : run \in Like(c) <=> run \in Of(p, S) /\ Configuration(run) = c
  BY DEF Like
<1>3. /\ \A bucket \in Buckets(p, S) : bucket \subseteq Of(p, S)
      /\ \A run \in Of(p, S) : \E bucket \in Buckets(p, S) : run \in bucket
  BY <1>1, <1>2
<1>4. ASSUME NEW a \in Buckets(p, S), NEW b \in Buckets(p, S), a \cap b # {} PROVE a = b
  BY <1>1, <1>2, <1>4
<1>5. /\ \A row : row \in rows <=> \E bucket \in Buckets(p, S) : row = RowOf(bucket)
      /\ \A bucket : RowOf(bucket).bucket = bucket /\ RowOf(bucket).summary = Summary(bucket, S)
  OBVIOUS
<1>6. /\ all[field] \subseteq Of(p, S)
      /\ \A bucket \in Buckets(p, S) : Summary(bucket, S)[field] = all[field] \cap bucket
  BY <1>3, SummaryOfPart
<1>7. IsFiniteSet(Of(p, S)) /\ IsFiniteSet(all[field])
  <2>1. Of(p, S) \in SUBSET saved
    BY DEF Of
  <2> HIDE DEF all
  <2> QED BY <1>6, <2>1, FS_Subset DEF CampaignCore, TypeOK
<1>8. IsFiniteSet(rows)
  <2>1. Buckets(p, S) \in SUBSET (SUBSET Of(p, S))
    BY <1>3
  <2>2. IsFiniteSet(Buckets(p, S))
    BY <1>7, <2>1, FS_SUBSET, FS_Subset
  <2> DEFINE f == [bucket \in Buckets(p, S) |-> RowOf(bucket)]
  <2>3. f \in Surjection(Buckets(p, S), rows)
    <3> HIDE DEF RowOf
    <3> QED BY DEF Surjection
  <2> HIDE DEF f, rows
  <2> QED BY <2>2, <2>3, FS_Surjection
<1> HIDE DEF rows, RowOf, all
<1>9. ASSUME NEW row \in rows
      PROVE  /\ row.bucket \in Buckets(p, S) /\ row = RowOf(row.bucket)
             /\ row.summary[field] = all[field] \cap row.bucket
  BY <1>5, <1>6
<1>10. /\ \A row \in rows : IsFiniteSet(row.summary[field])
       /\ \A a, b \in rows : a # b => a.summary[field] \cap b.summary[field] = {}
  <2>1. ASSUME NEW row \in rows PROVE IsFiniteSet(row.summary[field])
    BY <1>7, <1>9, FS_Intersection
  <2>2. ASSUME NEW a \in rows, NEW b \in rows, a # b
        PROVE  a.summary[field] \cap b.summary[field] = {}
    <3>1. a.bucket # b.bucket
      BY <1>9, <2>2
    <3>2. a.bucket \cap b.bucket = {}
      BY <1>4, <1>9, <3>1
    <3> QED BY <1>9, <3>2
  <2> QED BY <2>1, <2>2
<1>11. all[field] = Parts(rows, field)
  <2>1. ASSUME NEW run \in all[field] PROVE run \in Parts(rows, field)
    <3>1. PICK bucket \in Buckets(p, S) : run \in bucket
      BY <1>3, <1>6
    <3>2. RowOf(bucket) \in rows /\ run \in RowOf(bucket).summary[field]
      BY <1>5, <1>6, <3>1
    <3> QED BY <3>2, PartsHave
  <2>2. ASSUME NEW run \in Parts(rows, field) PROVE run \in all[field]
    <3>1. PICK row \in rows : run \in row.summary[field]
      BY PartsHave
    <3> QED BY <1>9, <3>1
  <2> QED BY <2>1, <2>2
<1>12. MapThenSumSet(LAMBDA row : Cardinality(row.summary[field]), rows)
          = Cardinality(Parts(rows, field))
  BY <1>8, <1>10, SumIsUnion
<1>13. /\ all[field] = UNION {row.summary[field] : row \in rows}
       /\ Cardinality(all[field]) =
             MapThenSumSet(LAMBDA row : Cardinality(row.summary[field]), rows)
  <2>1. Parts(rows, field) = UNION {row.summary[field] : row \in rows}
    BY DEF Parts
  <2> QED BY <1>11, <1>12, <2>1
<1> QED BY <1>13 DEF all, rows, RowOf

\* Whatever runs are selected, the groups, the comparisons of solvers and the rows
\* of the comparison page say of them what is so.
THEOREM TrueComparisons == ReportSpec => []ComparisonsAreTrue
<1>1. CampaignCore => ComparisonsAreTrue
  <2>1. \A S \in Selections : S \in SUBSET saved
    BY DEF Selections
  <2> QED BY <2>1, InvRatesGroups, InvFormsRows, InvCountsPages DEF ComparisonsAreTrue
<1> QED BY <1>1, CoreHolds, ReportsOnlyRead, PTL
=============================================================================
