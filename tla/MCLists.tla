------------------------------ MODULE MCLists ------------------------------
(***************************************************************************)
(* Small instances of everything that follows a list of extensions without *)
(* testing pairs, one of four: single mode (SingleMode); the list files,   *)
(* reports and tables of a campaign (ParallelCampaign); the source analysis*)
(* of a list (SourceAnalysis); and the orders to install and load in       *)
(* (MCInstallOrder).  The variables of the other three do not move.        *)
(***************************************************************************)
EXTENDS SingleMode, ParallelCampaign, SourceAnalysis, SampleDB

CONSTANTS a, b, c, d    \* names for the install orders

VARIABLES entry, pair
order == <<entry, pair>>

Install == INSTANCE MCInstallOrder WITH Names <- {a, b, c, d}, NotCreated <- {d}

ASSUME DatabaseTyped == \A n \in Described : Database[n] \in EntryType(AllOpts)

(* Single mode: a name without an entry, a dependency without one, and two *)
(* extensions to run; and a list whose last entry has no "dependencies".   *)
MixedList == <<plpgsql, jwt, check, citus, tle>>
ListWithRawEntry == <<tle, crypto, check, raw>>
RunLists == {MixedList, ListWithRawEntry}

(* The campaigns: one list file, or up to three when all pairs need        *)
(* different options.                                                      *)
ShortLists == [1 .. 2 -> {crypto, jwt, tle, citus}] \cup [1 .. 3 -> {jwt, tle, citus}]

(* The source analysis: an extension with two C files of one name, one that*)
(* is downloaded by hand, and one with any file of up to three lines or of *)
(* four that begin or end a conditional.                                   *)
LineKinds == {VersionIf({15}), OtherIf, EndIf, Code}
CFile(base, lines) == [base |-> base, lines |-> lines]
Guarded == <<VersionIf({13, 14}), Code, EndIf>>
Nested == <<VersionIf({12}), OtherIf, EndIf, EndIf>>

MCExtns == <<"cube", "plperl", "rum">>
MCSources(e) ==
  CASE e = "cube" -> {<<CFile("util.c", Guarded), CFile("util.c", Nested)>>,
                      <<CFile("cube.c", <<Code>>)>>}
    [] e = "plperl" -> {}
    [] e = "rum" -> {<<CFile("rum.c", ls)>> : ls \in UNION {[1 .. n -> LineKinds] : n \in 1 .. 3}
                                                   \cup [1 .. 4 -> LineKinds \ {Code}]}

-----------------------------------------------------------------------------
NoSingle ==
  /\ HostInit
  /\ pc = "idle" /\ runs = 0 /\ list = << >> /\ exitFlag = FALSE /\ pos = 1 /\ at = 1
  /\ opts = {} /\ extn = plpgsql /\ result = <<"no", "not supported">>
  /\ rows = << >> /\ file = << >> /\ fresh = TRUE
NoCampaign ==
  /\ extnList = << >> /\ lists = << >> /\ reports = << >> /\ ended = MaxEnded
  /\ table = << >> /\ judged = << >> /\ truth = << >>
NoSource ==
  /\ CpdInit
  /\ files = << >> /\ vfile = 1 /\ tmp = NoTmp /\ vloc = 0 /\ vlist = {} /\ vfrom = {}
  /\ vpc = "scan" /\ place = 1 /\ fetched = FALSE /\ dpc = "idle"
  /\ records = [f \in CsvFiles |-> << >>] /\ disk = records
NoOrder == entry = << >> /\ pair = << >>

CampaignOnly == NoSingle /\ ParallelInit /\ NoSource /\ NoOrder

ListsInit ==
  \/ Init /\ NoCampaign /\ NoSource /\ NoOrder
  \/ CampaignOnly
  \/ NoSingle /\ NoCampaign /\ SourceInit /\ NoOrder
  \/ NoSingle /\ NoCampaign /\ NoSource /\ Install!Init

ListsNext ==
  \/ list # << >> /\ Next /\ UNCHANGED <<parallelVars, allVars, order>>
  \/ extnList # << >> /\ ParallelNext /\ UNCHANGED <<vars, allVars, order>>
  \/ dpc # "idle" /\ NextSource /\ UNCHANGED <<vars, parallelVars, order>>
  \/ entry # << >> /\ Install!Ask /\ UNCHANGED <<vars, parallelVars, allVars>>

ListsSpec == ListsInit /\ [][ListsNext]_<<vars, parallelVars, allVars, order>>
CampaignOnlySpec == CampaignOnly /\ [][ListsNext]_<<vars, parallelVars, allVars, order>>

(* Extensions are installed and loaded in orders that work, as             *)
(* MCInstallOrder states it.                                               *)
OrdersSound == Install!InstallOrderSound /\ Install!LoadsInOrder
=============================================================================
