------------------------------- MODULE Reports -------------------------------
(***************************************************************************)
(* Report files (analysis/reports.py, compare and create_report of         *)
(* services.py, the report command of cli.py) written by several exporters *)
(* at once, from the records of campaigns that are still running.          *)
(*                                                                         *)
(* An exporter reads its evidence, names the report after it, and writes   *)
(* the files of the report one after the other.  Opening a file to write   *)
(* truncates it; what was written is there when it is closed.  An exporter *)
(* may be killed at any point, or fail in any write.                       *)
(*                                                                         *)
(* The report command and the report page refuse files that are there      *)
(* unless told to overwrite.  The comparison page always overwrites, but   *)
(* looks at the JSON file first, refuses one with another content and      *)
(* keeps its time of generation.                                           *)
(*                                                                         *)
(* The id of a report is a digest of the query and the analysis; both are  *)
(* a function of the runs and of who asks, which stand for it here.  The   *)
(* exporter that took the time of a report stands for that time.           *)
(***************************************************************************)
EXTENDS Plan, Analysis, FiniteSetsExt

CONSTANTS
    Exporters,   \* requests to export, of the page or of the command line
    TableNames,  \* the CSV files a report may have
    Tables,      \* who asks -> those of a report, in the order of writing
    Exported     \* definitions whose campaigns are exported, on which machines; where
                 \* there are no other records than the campaign's; a bound

VARIABLES
    files,    \* report files: report and name -> content
    export    \* what each exporter does: how far it is (pc), who asked, the report
              \* (id), its runs and time, which of its files is next; and, for
              \* the properties, the files it found and whether it was alone

exporting == <<files, export>>

Requests == {"comparison", "page", "page overwriting"}

\* Who asks decides the query; overwriting is no part of it.
Asker(request) == IF request = "comparison" THEN "comparison" ELSE "page"

\* Every run has a problem size, so that there is a table of groups and one of
\* scaling points; only the comparison pairs solvers, which gives three more.
Names(request) == <<"json">> \o Tables[Asker(request)] \o <<"markdown">>

\* Seeded bug: the digest is of the query only.
ReportOfQuery(request, c, runs) == [asker |-> Asker(request), campaign |-> c, runs |-> {}]

ReportOf(request, c, runs) == [asker |-> Asker(request), campaign |-> c, runs |-> runs]

FileNames == {"json", "markdown"} \cup TableNames

FilesOf(id) == {path \in DOMAIN files : path[1] = id}

\* A file that is open for writing, or was when its writer ended, cannot be read.
Torn == [runs |-> {}, generated_at |-> Nothing]
Whole(path) == path \in DOMAIN files /\ files[path] # Torn

\* Only the JSON and the Markdown file say when the report was generated.
Content(runs, time, name) ==
    [runs |-> runs, generated_at |-> IF name \in {"json", "markdown"} THEN time ELSE Nothing]

Put(path, content) ==
    files' = [p \in DOMAIN files \cup {path} |-> IF p = path THEN content ELSE files[p]]

Goto(x, step) == export' = [export EXCEPT ![x].pc = step]

Live(x) == export[x].pc \in {"look", "check", "open", "close"}
Path(x) == <<export[x].id, Names(export[x].request)[export[x].next]>>

\* Without a request, and how the last one ended.
Free(how) == [pc |-> how, request |-> "page", id |-> Nothing, runs |-> {},
              generated_at |-> Nothing, next |-> 1, found |-> {}, alone |-> FALSE]

\* The request is answered, or lost with its process.
End(x, how) == export' = [export EXCEPT ![x] = Free(how)]

ReportInit ==
    /\ Init
    /\ files = << >>
    /\ export = [x \in Exporters |-> Free("idle")]

\* The evidence is read: for a report page all runs of the campaign so far, for a
\* comparison a window of them or some that were picked.  Without runs the request
\* is refused, which changes nothing.
Start(x, request, c, runs) ==
    LET id == ReportOf(request, c, runs)
        others == {y \in Exporters : Live(y) /\ export[y].id = id}
    IN  /\ export[x].pc = "idle"
        /\ <<definition[c], installed>> \in Exported /\ saved = RunsOf(c)
        /\ runs # {}
        /\ request # "comparison" => runs = RunsOf(c)
        /\ export' =
              [y \in Exporters |->
                  IF y = x
                  THEN [pc |-> CASE request = "comparison" -> "look"
                                 [] request = "page" -> "check"
                                 [] OTHER -> "open",
                        request |-> request, id |-> id, runs |-> runs, generated_at |-> x,
                        next |-> 1,
                        found |-> {[path |-> p, content |-> files[p]] : p \in FilesOf(id)},
                        alone |-> others = {}]
                  ELSE [export[y] EXCEPT !.alone = @ /\ y \notin others]]
        /\ UNCHANGED files

\* Seeded bug: the time of the present export is taken.
LookAtContent(x) ==
    /\ export[x].pc = "look"
    /\ IF Path(x) \notin DOMAIN files \/ files[Path(x)].runs = export[x].runs
       THEN Goto(x, "open") ELSE End(x, "refused")
    /\ UNCHANGED files

\* The comparison page reads a JSON file that is there: one that is torn cannot be
\* parsed, one of another content is refused, and the time of any other is kept.
Look(x) ==
    /\ export[x].pc = "look"
    /\ IF Path(x) \notin DOMAIN files THEN Goto(x, "open")
       ELSE IF ~ Whole(Path(x)) THEN End(x, "failed")
       ELSE IF files[Path(x)].runs # export[x].runs THEN End(x, "refused")
       ELSE export' = [export EXCEPT ![x].pc = "open",
                                     ![x].generated_at = files[Path(x)].generated_at]
    /\ UNCHANGED files

\* Seeded bug: a file that an interrupted export left is replaced.
CheckWhole(x) ==
    /\ export[x].pc = "check"
    /\ IF Whole(Path(x)) THEN End(x, "refused") ELSE Goto(x, "open")
    /\ UNCHANGED files

\* _safe_path refuses a file that is there; those written before it stay.
Check(x) ==
    /\ export[x].pc = "check"
    /\ IF Path(x) \in DOMAIN files THEN End(x, "refused") ELSE Goto(x, "open")
    /\ UNCHANGED files

Open(x) ==
    /\ export[x].pc = "open"
    /\ Put(Path(x), Torn)
    /\ Goto(x, "close")

Close(x) ==
    /\ export[x].pc = "close"
    /\ Put(Path(x), Content(export[x].runs, export[x].generated_at, Path(x)[2]))
    /\ IF export[x].next = Len(Names(export[x].request)) THEN End(x, "done")
       ELSE export' = [export EXCEPT
                         ![x].next = @ + 1,
                         ![x].pc = IF export[x].request = "page" THEN "check" ELSE "open"]

\* The process is killed, or a write fails.
Stop(x) ==
    /\ Live(x)
    /\ End(x, "stopped")
    /\ UNCHANGED files

Export(x) ==
    \/ \E request \in Requests, c \in Processes :
          \E runs \in SUBSET RunsOf(c) : Start(x, request, c, runs)
    \/ Look(x) \/ Check(x) \/ Open(x) \/ Close(x) \/ Stop(x)

ReportNext ==
    \/ Next /\ UNCHANGED exporting
    \/ \E x \in Exporters : Export(x) /\ UNCHANGED vars

ReportSpec == ReportInit /\ [][ReportNext]_<<vars, exporting>>

-----------------------------------------------------------------------------
(* What is assumed of the constants. *)

\* The JSON file comes first, the Markdown file last, no file twice.
ASSUME ReportAssumption ==
    /\ Tables \in [{"comparison", "page"} -> Seq(TableNames)]
    /\ \A request \in Requests : \A i, j \in 1 .. Len(Names(request)) :
          Names(request)[i] = Names(request)[j] => i = j
    /\ Nothing \notin Exporters

-----------------------------------------------------------------------------
(* Properties. *)

\* Whatever runs are selected, filtered and grouped:
\*  - a group is rated wherever the filters leave an exact result for the problem, in
\*    the group or not, and a run of it counts as optimal only when it is; its best
\*    objective, when it is about one problem, is that of the run nearest to the optimum;
\*  - a comparison of the groups of problem and solver leaves out none of the problem's
\*    runs, its exact side is the optimum, and a problem with quantum runs is compared
\*    with an exact baseline or warned of, never both;
\*  - the configurations of the comparison page count every run once.
\* (operations.py, comparison_view.py, docs/analysis.md "Quality summaries respect
\* OptimizationSense".)
FiltersOf(S) == {[f \in {field} |-> run[f]] : field \in {"solver", "problem", "status"}, run \in S}

Queries(S) ==
    {Everything(group_by) : group_by \in {{}, Default}} \cup
    {[Everything({"solver"}) EXCEPT !.include_failed = FALSE, !.include_unavailable = FALSE]} \cup
    {[Everything({}) EXCEPT !.filters = filters] : filters \in FiltersOf(S)}

GroupsAreTrue(S, query) ==
    LET applicable == Applicable(S, query)
    IN  \A group \in Groups(S, query) :
          LET quality == Quality(group.runs, applicable)
          IN  /\ quality.rated =
                    {run \in Observed(group.runs) :
                        \E e \in Observed(Of(run.problem, Filtered(S, query.filters))) :
                           e.solver = "exact"}
              /\ quality.at_optimum = {run \in quality.rated : Distance(run) = 0}
              /\ Cardinality({run.problem : run \in group.runs}) = 1 =>
                    \A run \in Observed(group.runs) :
                       /\ \E best \in Observed(group.runs) :
                             /\ best.objective = quality.best_objective
                             /\ Distance(best) <= Distance(run)

RowsAreTrue(S) ==
    LET query == Everything(Default)
        groups == Groups(S, query)
        rows == ClassicalVsQuantum(groups, S)
    IN  /\ \A row \in rows \cup QiskitVsCudaq(groups, S) \cup GpuVsCpu(groups, S) :
              \A solver \in DOMAIN row.of :
                 row.of[solver].run_ids = {run \in Of(row.problem, S) : run.solver = solver}
        /\ \A row \in rows :
              /\ UNION {row.of[solver].run_ids : solver \in DOMAIN row.of} = Of(row.problem, S)
              /\ row.of["exact"].objective \in {Nothing} \cup Best(row.problem)
        /\ \A run \in S : run.solver \in Quantum =>
              (run.problem \in WithoutBaseline(groups))
              # (\E row \in rows : row.problem = run.problem)

PagesAreTrue(S) ==
    \A p \in {run.problem : run \in S} :
        LET all == Summary(Of(p, S), S)
            rows == {[bucket |-> bucket, summary |-> Summary(bucket, S)] :
                        bucket \in Buckets(p, S)}
        IN  \A field \in DOMAIN all :
              /\ all[field] = UNION {row.summary[field] : row \in rows}
              /\ Cardinality(all[field]) =
                    MapThenSumSet(LAMBDA row : Cardinality(row.summary[field]), rows)

ComparisonsAreTrue ==
    \A S \in Selections :
        /\ \A query \in Queries(S) : GroupsAreTrue(S, query)
        /\ RowsAreTrue(S)
        /\ PagesAreTrue(S)

\* docs/reporting.md calls the reports reproducible: the files of one report that can
\* be read were made of the same runs, all of them recorded, whoever wrote them and
\* whatever the campaign did meanwhile; and a report of a campaign leaves out no run
\* that is older than one it cites.
ReportsAreReproducible ==
    \A p \in DOMAIN files : Whole(p) =>
        /\ files[p].runs \subseteq saved
        /\ \A q \in FilesOf(p[1]) : Whole(q) => files[q].runs = files[p].runs
        /\ p[1].asker = "page" =>
              \A run \in files[p].runs, older \in RunsOf(p[1].campaign) :
                 older.id.number < run.id.number => older \in files[p].runs

\* An export that ends well, while nobody else exported the same report, leaves all of
\* its files whole and of one generation, whatever killed or refused exports left
\* behind; and a comparison keeps the time of the report it found
\* (docs/benchmarking-ui.md: "retains its artifact generation timestamp").
ReportIsWhole ==
    [][\A x \in Exporters :
         LET e == export[x]
         IN  e.pc = "close" /\ export'[x].pc = "done" /\ e.alone =>
                /\ \A i \in DOMAIN Names(e.request) :
                      LET name == Names(e.request)[i]
                      IN  /\ <<e.id, name>> \in DOMAIN files'
                          /\ files'[<<e.id, name>>] = Content(e.runs, e.generated_at, name)
                /\ e.request = "comparison" =>
                      \A f \in e.found : f.path[2] = "json" => files'[f.path] = f.content]_<<files, export>>

\* docs/reporting.md: "Report commands refuse to overwrite existing files unless
\* `--overwrite` is set."  No step of such a command changes a file that was there
\* when it started, whichever of the report's files that was.
NothingIsOverwritten ==
    [][\A x \in Exporters :
         /\ export[x].request = "page" /\ export'[x].pc # export[x].pc
         => \A f \in export[x].found : files'[f.path] = files[f.path]]_<<files, export>>

-----------------------------------------------------------------------------
(* The inductive invariant behind the properties. *)

Contents == [runs : SUBSET saved, generated_at : {Nothing} \cup Exporters]
Ids == [asker : {"comparison", "page"}, campaign : Processes, runs : SUBSET saved]
Exports ==
    [pc : {"idle", "look", "check", "open", "close", "done", "refused", "failed", "stopped"},
     request : Requests, id : {Nothing} \cup Ids, runs : SUBSET saved,
     generated_at : {Nothing} \cup Exporters, next : Nat,
     found : SUBSET [path : Ids \X FileNames, content : Contents], alone : BOOLEAN]

\* Exports and files cite recorded runs.
ReportTypeOK ==
    /\ export \in [Exporters -> Exports]
    /\ DOMAIN files \subseteq Ids \X FileNames
    /\ files \in [DOMAIN files -> Contents]

\* The runs of a campaign are numbered as they are recorded.
Numbered ==
    \A c \in Processes :
        /\ IsFiniteSet(RunsOf(c))
        /\ \A run \in RunsOf(c) : run.id.number \in 0 .. Cardinality(RunsOf(c)) - 1

\* A report is of runs of its campaign, and a report page took all there were.
OfCampaign(id) ==
    /\ id.runs \subseteq RunsOf(id.campaign)
    /\ id.asker = "page" =>
          \A run \in id.runs, older \in RunsOf(id.campaign) :
             older.id.number < run.id.number => older \in id.runs

\* A whole file is of the runs its report is named after.
FilesInv ==
    \A p \in DOMAIN files : OfCampaign(p[1]) /\ (Whole(p) => files[p].runs = p[1].runs)

\* An export is about the runs of its report, found only files that are there, and a
\* command that does not overwrite is about to write none of those.
ExportInv(x) ==
    LET e == export[x]
    IN  IF ~ Live(x) THEN e.found = {}
        ELSE /\ e.id \in Ids /\ e.id.runs = e.runs /\ e.runs # {} /\ OfCampaign(e.id)
             /\ e.next \in 1 .. Len(Names(e.request))
             /\ e.pc = "look" => e.next = 1 /\ e.request = "comparison"
             /\ \A f \in e.found : f.path \in FilesOf(e.id)
             /\ e.request = "page" /\ e.pc \in {"open", "close"} =>
                   \A f \in e.found : f.path # Path(x)

ExportsInv == \A x \in Exporters : ExportInv(x)

EvidenceInv == ReportTypeOK /\ Numbered /\ FilesInv /\ ExportsInv

\* The files an export has written so far, when nobody interferes, are whole and of
\* its generation; a comparison took over the time of the JSON file it found.
WrittenBy(x, i) ==
    LET e == export[x]
        path == <<e.id, Names(e.request)[i]>>
    IN  path \in DOMAIN files /\ files[path] = Content(e.runs, e.generated_at, path[2])

Undisturbed(x) ==
    LET e == export[x]
    IN  /\ \A y \in Exporters \ {x} : Live(y) => export[y].id # e.id
        /\ \A i \in 1 .. e.next - 1 : WrittenBy(x, i)
        /\ e.request = "comparison" =>
              \A f \in e.found : f.path[2] = "json" =>
                 IF e.pc = "look" THEN files[f.path] = f.content
                 ELSE f.content = Content(e.runs, e.generated_at, "json")

AloneInv == \A x \in Exporters : Live(x) /\ export[x].alone => Undisturbed(x)

ReportInv == EvidenceInv /\ AloneInv
=============================================================================
