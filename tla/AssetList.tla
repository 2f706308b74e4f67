----------------------------- MODULE AssetList -----------------------------
(***************************************************************************)
(* The list of assets behind a user's menu: what each command of Dispatch  *)
(* (handler/dispatch.go) does to the UserSelectHandler                     *)
(* (handler/selectHandler.go) and its pageInfo (handler/pageInfo.go), with *)
(* the drawing of handler/asset.go.  The size of the terminal changes      *)
(* between two commands (WatchWinSizeChange) and a refresh replaces the    *)
(* list and the configuration under the page that is on the screen.        *)
(*                                                                         *)
(* An asset is a number; hostnames are ordered as the numbers and          *)
(* addresses the other way round.  A search key is known by the assets it  *)
(* matches, those it names exactly and the number it reads as.             *)
(***************************************************************************)
EXTENDS Integers, Sequences, FiniteSets, FiniteSetsExt, Functions

CONSTANTS
  Keys,       \* non-empty keys a user enters
  Match,      \* [Keys -> SUBSET Int]: the assets that contain the key
  Named,      \* [Keys -> SUBSET Int]: those whose ip or hostname is the key
  Number,     \* [Keys -> Nat]: what Atoi reads, 0 if it is no number
  Databases,  \* what GetAllUserPermsAssets may return: [assets, nodes]
  Confs,      \* terminal configurations: [mode, size, byIp]
  Heights,    \* heights of the terminal
  MaxKeys     \* bound: keys of one refined search

NoKey == ""
NoNode == [key |-> 0, assets |-> {}]
NoData == [assets |-> <<>>, nodes |-> <<>>]   \* after an error
PAGESIZEALL == 0
MinHeight == 8

ASSUME KeysAssumption ==
  /\ NoKey \notin Keys /\ MaxKeys \in Nat \ {0}
  /\ \A k \in Keys : Named[k] \subseteq Match[k] /\ Number[k] \in Nat
  /\ Heights \subseteq Nat
  /\ \A c \in Confs : c.mode \in {"auto", "all", "fixed"} /\ c.size \in Int
  /\ \A d \in Databases :
       /\ d.assets \in Seq(Int)
       /\ Range(d.assets) = UNION {n.assets : n \in Range(d.nodes)}

VARIABLES
  running,        \* Dispatch has not returned
  initialed,      \* an empty line means the next page
  currentType,    \* "none", "asset" or "node"
  searchKeys, selectedNode, allLocalData, currentResult,
  nodes,          \* h.nodes, of the handler
  page,           \* pageInfo, with hasPre and hasNext
  height,         \* of the terminal
  conf,           \* terminalConf
  screen,         \* history: the rows drawn last that a number may name
  tree,           \* history: the nodes drawn last that a number may name
  steady,         \* history: same page size and data since the search
  seen            \* history: assets drawn since the search, while steady

listVars == <<running, initialed, currentType, searchKeys, selectedNode,
          allLocalData, currentResult, nodes, page, height, conf,
          screen, tree, seen, steady>>

source == <<allLocalData, nodes, height, conf>>
view   == <<currentType, searchKeys, selectedNode, currentResult, page>>
drawn  == <<screen, seen, steady>>

ListInit ==
  /\ running = "start" /\ initialed = FALSE
  /\ currentType = "none" /\ searchKeys = <<>> /\ selectedNode = NoNode
  /\ currentResult = <<>>
  /\ \E d \in Databases \cup {NoData} :
       allLocalData = d.assets /\ nodes = d.nodes
  /\ page = [pageSize |-> 0, currentOffset |-> 0, totalPage |-> 0,
             currentPage |-> 0, totalCount |-> 0,
             hasPre |-> FALSE, hasNext |-> FALSE]
  /\ height \in Heights /\ conf \in Confs
  /\ screen = <<>> /\ tree = <<>>
  /\ seen = {} /\ steady = FALSE

-----------------------------------------------------------------------------
(* What a search finds.  Every field contains the empty key.               *)
Matches(a, k) == k = NoKey \/ (k \in Keys /\ a \in Match[k])

(* containKeysInMapItemFields: one key that matches is enough.             *)
containKeys(a, keys) == keys = <<>> \/ \E k \in Range(keys) : Matches(a, k)

IsHit(a, type, node, keys) ==
  IF type = "node" THEN a \in node.assets ELSE containKeys(a, keys)

(* The n-th index of a set.                                                *)
UpTo(indices, i) == {j \in indices : j <= i}

Nth(indices, n) == CHOOSE i \in indices : Cardinality(UpTo(indices, i)) = n

(* The assets found, in the order of the list.                             *)
retrieveLocal(type, node, keys) ==
  LET hits == {i \in DOMAIN allLocalData :
                 IsHit(allLocalData[i], type, node, keys)}
  IN  [n \in 1..Cardinality(hits) |-> allLocalData[Nth(hits, n)]]

getUniqueAssetFromKey(key, result) ==
  {i \in DOMAIN result : key \in Keys /\ result[i] \in Named[key]}

getPageSize ==
  CASE conf.mode = "all"   -> PAGESIZEALL
    [] conf.mode = "auto"  -> Max({1, height - MinHeight})
    [] conf.mode = "fixed" -> Max({1, conf.size})

(* Fault: a page that is not full is not counted.                          *)
PagesFull(n, size) == n \div size

(* Pages of the given size that n rows fill, the last one perhaps partly.  *)
Pages(n, size) == IF n % size = 0 THEN n \div size ELSE n \div size + 1

(* pageInfo.update, and the two flags that Retrieve derives from it.       *)
PageInfo(size, offset, total) ==
  LET totalPage   == IF size <= 0 THEN 1 ELSE Pages(total, size)
      currentPage == IF size <= 0 THEN 1 ELSE Pages(offset, size)
  IN  [pageSize |-> size, currentOffset |-> offset, totalPage |-> totalPage,
       currentPage |-> currentPage, totalCount |-> total,
       hasPre |-> currentPage > 1, hasNext |-> currentPage < totalPage]

(* Retrieve: the rows of found from offset on, at most pageSize of them,   *)
(* and the page information they leave.                                    *)
Retrieve(pageSize, offset, found) ==
  LET totalData == SubSeq(found, offset + 1, Len(found))
      size == IF pageSize = PAGESIZEALL THEN Len(totalData) ELSE pageSize
      data == SubSeq(totalData, 1, Min({size, Len(totalData)}))
  IN  [data |-> data,
       page |-> PageInfo(size, offset + Len(data), Len(found))]

(* sort.Sort: row i goes behind the smaller ones.  Its equals are copies   *)
(* of it, as keys of nodes are unique, and it goes behind the earlier ones *)
(* of them.                                                                *)
NotAfter(rows, i, Less(_, _)) ==
  {j \in DOMAIN rows : \/ Less(rows[j], rows[i])
                       \/ ~Less(rows[i], rows[j]) /\ j <= i}

Sort(rows, Less(_, _)) ==
  [n \in DOMAIN rows |->
     rows[CHOOSE i \in DOMAIN rows : Cardinality(NotAfter(rows, i, Less)) = n]]

(* displaySortedAssets: by address or by hostname.                         *)
Sorted(rows) == Sort(rows, LAMBDA a, b : IF conf.byIp THEN a > b ELSE a < b)

(* Fault: the rows are sorted for drawing only.                            *)
DrawCopy(rows, before) ==
  /\ currentResult' = rows
  /\ screen' = Sorted(rows)
  /\ seen' = IF steady' THEN before \cup Range(rows) ELSE {}

(* DisplayCurrentResult sorts the page in place and draws it.              *)
DisplayCurrentResult(rows, before) ==
  /\ currentResult' = Sorted(rows)
  /\ screen' = Sorted(rows)
  /\ seen' = IF steady' THEN before \cup Range(rows) ELSE {}

(* Without a type the first search is one over all assets.                 *)
TypeOr(type) == IF type = "none" THEN "asset" ELSE type

-----------------------------------------------------------------------------
(* Search and SearchAgain, and the selection of a type before them.        *)
List(type, node, keys) ==
  LET r == Retrieve(getPageSize, 0, retrieveLocal(type, node, keys))
  IN  /\ currentType' = type /\ selectedNode' = node /\ searchKeys' = keys
      /\ page' = r.page
      /\ steady' = TRUE
      /\ DisplayCurrentResult(r.data, {})
      /\ UNCHANGED <<source, tree>>

(* Another page of the same search.                                        *)
Turn(offset) ==
  LET r == Retrieve(getPageSize, offset,
                    retrieveLocal(currentType, selectedNode, searchKeys))
  IN  page' = r.page /\ DisplayCurrentResult(r.data, seen)

Redraw == page' = page /\ DisplayCurrentResult(currentResult, seen)

MoveNextPage ==
  /\ UNCHANGED <<currentType, searchKeys, selectedNode, source, tree, steady>>
  /\ IF page.hasNext THEN Turn(page.currentOffset) ELSE Redraw

MovePrePage ==
  /\ UNCHANGED <<currentType, searchKeys, selectedNode, source, tree, steady>>
  /\ IF page.hasPre
       THEN Turn(Max({0, page.currentOffset - getPageSize * 2}))
       ELSE Redraw

(* SearchOrProxy with the number of a row of the page: Proxy opens a       *)
(* session to that row's asset and changes nothing here.                   *)
ProxyRow == UNCHANGED <<view, source, drawn, tree>>

(* SearchOrProxy with a word: the page is replaced by what it finds.  A    *)
(* page of one row, or the one row that bears the name, is opened without  *)
(* being drawn, and numbers then name rows the user has not seen.          *)
SearchOrProxyWord(key) ==
  LET type == TypeOr(currentType)
      r == Retrieve(getPageSize, 0, retrieveLocal(type, selectedNode, <<key>>))
      direct == \/ Len(r.data) = 1
                \/ /\ type = "asset"
                   /\ Cardinality(getUniqueAssetFromKey(key, r.data)) = 1
  IN  /\ currentType' = type /\ searchKeys' = <<key>>
      /\ page' = r.page
      /\ steady' = ~direct
      /\ IF direct THEN currentResult' = r.data /\ screen' = <<>> /\ seen' = {}
                   ELSE DisplayCurrentResult(r.data, {})
      /\ UNCHANGED <<selectedNode, source, tree>>

SearchOrProxy(key) ==
  IF key \in Keys /\ Number[key] \in DOMAIN currentResult
    THEN ProxyRow
    ELSE SearchOrProxyWord(key)

-----------------------------------------------------------------------------
(* The lines of Dispatch.  A user with one asset never sees the menu.      *)
HasJustOneAsset ==
  /\ running = "start"
  /\ IF Len(allLocalData) = 1
       THEN running' = "end" /\ SearchOrProxy(NoKey)
       ELSE running' = "menu" /\ UNCHANGED <<view, source, drawn, tree>>
  /\ UNCHANGED initialed

Entered == running = "menu" /\ running' = "menu" /\ initialed' = TRUE

DefaultList == List("asset", selectedNode, <<NoKey>>)

EmptyLine == Entered /\ IF initialed THEN MoveNextPage ELSE DefaultList

LineP == Entered /\ DefaultList

LineB == Entered /\ MovePrePage

LineN == Entered /\ MoveNextPage

LineSlash(key) ==
  /\ Entered
  /\ List(TypeOr(currentType), selectedNode, <<key>>)

LineSlashSlash(key) ==
  /\ Entered
  /\ Len(searchKeys) < MaxKeys
  /\ List(TypeOr(currentType), selectedNode, Append(searchKeys, key))

LineWord(key) == Entered /\ SearchOrProxy(key)

SortNodesByKey(ns) == Sort(ns, LAMBDA m, n : m.key < n.key)

(* The nodes are sorted in place and drawn with their indices.             *)
ConstructNodeTree == nodes' = SortNodesByKey(nodes) /\ tree' = nodes'

LineG ==
  /\ Entered
  /\ ConstructNodeTree
  /\ UNCHANGED <<view, allLocalData, height, conf, drawn>>

(* g and a number: the assets of that node.                                *)
LineGNumber(n) == Entered /\ List("node", nodes[n], <<NoKey>>)

(* A refresh or a new size of the terminal may change what pages mean.     *)
Steady ==
  /\ steady' = (steady /\ allLocalData' = allLocalData
                       /\ getPageSize' = getPageSize)
  /\ seen' = IF steady' THEN seen ELSE {}

LineH ==
  /\ running = "menu" /\ initialed' = FALSE
  /\ UNCHANGED <<running, view, source, drawn, tree>>

(* refreshAssetsAndNodesData: two goroutines, each of which may fail and   *)
(* leave its part as it is.  The page on the screen stays.                 *)
LineR ==
  /\ Entered
  /\ \/ UNCHANGED <<allLocalData, nodes, tree>>
     \/ \E d \in Databases :
          allLocalData' = d.assets /\ nodes' = d.nodes /\ tree' = <<>>
  /\ conf' \in Confs
  /\ UNCHANGED <<view, height, screen>>
  /\ Steady

LineQ ==
  /\ running = "menu" /\ running' = "end"
  /\ UNCHANGED <<initialed, view, source, drawn, tree>>

(* WatchWinSizeChange runs beside Dispatch.                                *)
WatchWinSizeChange ==
  /\ running = "menu"
  /\ height' \in Heights
  /\ UNCHANGED <<running, initialed, view, allLocalData, nodes, conf,
                 screen, tree>>
  /\ Steady

ListNext ==
  \/ HasJustOneAsset \/ EmptyLine \/ LineP \/ LineB \/ LineN
  \/ \E key \in Keys : LineSlash(key) \/ LineWord(key)
  \/ \E key \in Keys \cup {NoKey} : LineSlashSlash(key)
  \/ LineG
  \/ \E n \in DOMAIN nodes : LineGNumber(n)
  \/ LineH \/ LineR \/ LineQ \/ WatchWinSizeChange

ListSpec == ListInit /\ [][ListNext]_listVars

-----------------------------------------------------------------------------
Found == Range(retrieveLocal(currentType, selectedNode, searchKeys))

(* While the size of a page and the data stay what they were when the list *)
(* was retrieved: the list has no further page only once every asset found *)
(* was drawn, in whatever order the user paged up and down, and has no     *)
(* earlier page only where the page begins with the first asset found.     *)
(* (MoveNextPage, MovePrePage and pageInfo.update, which count pages by    *)
(* the offset after the last row.)                                         *)
PagesCoverResults ==
  steady =>
    /\ ~page.hasNext => Found \subseteq seen
    /\ ~page.hasPre  => page.currentOffset = Len(currentResult)

(* A number means what was drawn beside it: of a row, on the page drawn    *)
(* last, unless an asset was opened without drawing its page since; of a   *)
(* node, in the tree drawn last, unless the nodes were refreshed since.    *)
(* (displaySortedAssets and ConstructNodeTree sort in place what the       *)
(* numbers of SearchOrProxy and Dispatch index.)                           *)
NumbersAsDrawn ==
  /\ screen # <<>> => screen = currentResult
  /\ tree # <<>> => tree = nodes

============================================================================
