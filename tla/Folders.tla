------------------------------ MODULE Folders ------------------------------
(***************************************************************************)
(* folders.service.ts, for one user: folders, the modules in them, and the *)
(* tags a folder gives to its modules. Creating, renaming and deleting are *)
(* one statement each: the look-ups before it are left out, for it fails   *)
(* by itself, on a missing row or the unique index, when they would.       *)
(* setModuleTags is followed query by query, for each member of Setter one *)
(* request at a time. The deletion of modules is in Library.               *)
(***************************************************************************)
EXTENDS Integers, FiniteSets, SequencesExt

CONSTANTS
  Folder, Name,
  Filed,          \* the modules that are put into folders
  Setter,         \* the requests setModuleTags that may be handled at once
  MaxTags         \* bound: tags ever created

ASSUME FoldersAssumption == MaxTags \in Nat

VARIABLES
  foldersMade, folders,  \* the folders ever created, and those that exist
  tag, lastTag,          \* the table Tag, and the tag created last
  member,                \* _FolderToModule: pairs of a module and a folder
  tagged,                \* _ModuleToTag: pairs of a module and a tag
  setting,               \* Setter -> where it stands
  ever,                  \* for the properties: the pairs that ever were in member
  wanted                 \* and, per module and folder, the tags that were asked for

folderVars == <<foldersMade, folders, tag, lastTag, member, tagged, setting, ever, wanted>>
folderTables == <<foldersMade, folders, tag, lastTag, member, tagged, ever>>

Tag == 1 .. MaxTags
Tags == DOMAIN tag
TagsOf(f) == {t \in Tags : tag[t].folder = f}

\* met: tags given by requests for the same module and folder meanwhile;
\* apart: there was no such request at work meanwhile.
NoRequest == [at |-> "idle"]
TagRequest == [at : {"check", "list", "cut", "connect"}, m : Filed, f : Folder,
            tags : SUBSET Tag, listed : SUBSET Tag, cut : SUBSET Tag,
            met : SUBSET Tag, apart : BOOLEAN]

FoldersInit ==
  /\ foldersMade = {} /\ folders = {} /\ tag = [t \in {} |-> 0] /\ lastTag = 0
  /\ member = {} /\ tagged = {} /\ ever = {}
  /\ setting = [c \in Setter |-> NoRequest]
  /\ wanted = [mf \in Filed \X Folder |-> [tags |-> {}, alone |-> TRUE]]

Stands(c, label) == setting[c].at = label
Finish(c) == setting' = [setting EXCEPT ![c] = NoRequest]

\* An open transaction holds the pairs it has disconnected.
Held(c, ms, ts) ==
  \E d \in Setter \ {c} : Stands(d, "connect") /\ setting[d].m \in ms /\ ts \cap setting[d].cut # {}
NoneHolds(ts) == \A d \in Setter : Stands(d, "connect") => ts \cap setting[d].cut = {}

-----------------------------------------------------------------------------
(* Folders and their modules.                                               *)

\* create, with its tags: of a name given twice the first is kept.
CreateFolder(f, names) ==
  /\ f \notin foldersMade /\ lastTag + Len(names) <= MaxTags
  /\ foldersMade' = foldersMade \union {f} /\ folders' = folders \union {f}
  /\ lastTag' = lastTag + Len(names)
  /\ tag' = [t \in Tags \union (lastTag + 1 .. lastTag') |->
               IF t <= lastTag THEN tag[t] ELSE [folder |-> f, name |-> names[t - lastTag]]]
  /\ UNCHANGED <<member, tagged, setting, ever, wanted>>

\* The schema cascades from a folder to its tags and pairs, from a tag to its.
DropTagsOnly(ts) == tag' = [t \in Tags \ ts |-> tag[t]] /\ UNCHANGED tagged
DropTags(ts) ==
  /\ NoneHolds(ts)
  /\ tag' = [t \in Tags \ ts |-> tag[t]]
  /\ tagged' = {mt \in tagged : mt[2] \notin ts}

RemoveFolder(f) ==
  /\ f \in folders
  /\ folders' = folders \ {f} /\ DropTags(TagsOf(f))
  /\ member' = {mf \in member : mf[2] # f}
  /\ UNCHANGED <<foldersMade, lastTag, setting, ever, wanted>>

Belong(pairs) ==
  /\ member' = pairs /\ ever' = ever \union pairs
  /\ UNCHANGED <<foldersMade, folders, tag, lastTag, tagged, setting, wanted>>

AddModules(f, ms) == f \in folders /\ Belong(member \union (ms \X {f}))

\* A module taken out of a folder keeps its tags.
RemoveModules(f, ms) == f \in folders /\ Belong(member \ (ms \X {f}))

\* modules.service's create and update put a module into one folder or none.
SetFolder(m, fs) ==
  /\ fs \subseteq folders /\ Cardinality(fs) <= 1
  /\ Belong({mf \in member : mf[1] # m} \union ({m} \X fs))

-----------------------------------------------------------------------------
(* Tags.                                                                    *)

\* The unique index on folder and name.
Free(f, n, t) == \A x \in TagsOf(f) \ {t} : tag[x].name # n

CreateTag(f, n) ==
  /\ f \in folders /\ lastTag < MaxTags /\ lastTag' = lastTag + 1 /\ Free(f, n, lastTag')
  /\ tag' = [t \in Tags \union {lastTag'} |->
               IF t = lastTag' THEN [folder |-> f, name |-> n] ELSE tag[t]]
  /\ UNCHANGED <<foldersMade, folders, member, tagged, setting, ever, wanted>>

RenameTag(t, n) ==
  /\ t \in Tags /\ Free(tag[t].folder, n, t)
  /\ tag' = [tag EXCEPT ![t].name = n]
  /\ UNCHANGED <<foldersMade, folders, lastTag, member, tagged, setting, ever, wanted>>

DeleteTag(t) ==
  /\ t \in Tags /\ DropTags({t})
  /\ UNCHANGED <<foldersMade, folders, lastTag, member, setting, ever, wanted>>

-----------------------------------------------------------------------------
(* setModuleTags.                                                           *)

Rivals(c, m, f) == {d \in Setter \ {c} : ~Stands(d, "idle") /\ setting[d].m = m /\ setting[d].f = f}

Begin(c, m, f, ts) ==
  setting' = [d \in Setter |->
             IF d = c THEN [at |-> "check", m |-> m, f |-> f, tags |-> ts, listed |-> {},
                            cut |-> {}, met |-> {}, apart |-> Rivals(c, m, f) = {}]
             ELSE IF d \in Rivals(c, m, f) THEN [setting[d] EXCEPT !.apart = FALSE]
             ELSE setting[d]]

AskTagsUnchecked(c, m, f, ts) ==
  Stands(c, "idle") /\ f \in folders /\ Begin(c, m, f, ts) /\ UNCHANGED <<folderTables, wanted>>

AskTags(c, m, f, ts) ==
  /\ Stands(c, "idle") /\ f \in folders /\ <<m, f>> \in member
  /\ Begin(c, m, f, ts)
  /\ UNCHANGED <<folderTables, wanted>>

CheckTags(c) ==
  /\ Stands(c, "check")
  /\ IF setting[c].tags \subseteq TagsOf(setting[c].f)
     THEN setting' = [setting EXCEPT ![c].at = "list"]
     ELSE Finish(c)
  /\ UNCHANGED <<folderTables, wanted>>

ListTagsUnscoped(c) ==
  /\ Stands(c, "list")
  /\ setting' = [setting EXCEPT ![c].at = "cut", ![c].listed = Tags]
  /\ UNCHANGED <<folderTables, wanted>>

ListTags(c) ==
  /\ Stands(c, "list")
  /\ setting' = [setting EXCEPT ![c].at = "cut", ![c].listed = TagsOf(setting[c].f)]
  /\ UNCHANGED <<folderTables, wanted>>

DisconnectNone(c) ==
  Stands(c, "cut") /\ setting' = [setting EXCEPT ![c].at = "connect"] /\ UNCHANGED <<folderTables, wanted>>

\* The transaction of module.update: its first statement,
Disconnect(c) ==
  /\ Stands(c, "cut")
  /\ LET m == setting[c].m
         cut == {t \in setting[c].listed \ setting[c].tags : <<m, t>> \in tagged} IN
     /\ ~Held(c, {m}, cut)
     /\ setting' = [setting EXCEPT ![c].at = "connect", ![c].cut = cut]
  /\ UNCHANGED <<folderTables, wanted>>

\* and its second, with the commit; it fails when a tag is gone by now.
Connect(c) ==
  /\ Stands(c, "connect")
  /\ LET m == setting[c].m  f == setting[c].f  ts == setting[c].tags IN
     IF ts \subseteq Tags
     THEN /\ ~Held(c, {m}, ts)
          /\ tagged' = (tagged \ ({m} \X setting[c].cut)) \union ({m} \X ts)
          /\ setting' = [d \in Setter |->
               IF d = c THEN NoRequest
               ELSE IF d \in Rivals(c, m, f) THEN [setting[d] EXCEPT !.met = @ \union ts]
               ELSE setting[d]]
          /\ wanted' = [wanted EXCEPT ![<<m, f>>] =
               [tags |-> ts \union setting[c].met, alone |-> setting[c].apart]]
     ELSE Finish(c) /\ UNCHANGED <<tagged, wanted>>
  /\ UNCHANGED <<foldersMade, folders, tag, lastTag, member, ever>>

\* A query fails, a deadlock is resolved, or the API stops: nothing is kept.
GivesUp(c) == ~Stands(c, "idle") /\ Finish(c) /\ UNCHANGED <<folderTables, wanted>>

-----------------------------------------------------------------------------
NameLists == {s \in BoundedSeq(Name, Cardinality(Name)) : IsInjective(s)}

SetModuleTags(c) ==
  \/ \E m \in Filed, f \in folders, ts \in SUBSET Tags : AskTags(c, m, f, ts)
  \/ CheckTags(c) \/ ListTags(c) \/ Disconnect(c) \/ Connect(c) \/ GivesUp(c)

FoldersNext ==
  \/ \E f \in Folder :
       \/ \E names \in NameLists : CreateFolder(f, names)
       \/ RemoveFolder(f)
       \/ \E ms \in (SUBSET Filed) \ {{}} : AddModules(f, ms) \/ RemoveModules(f, ms)
       \/ \E n \in Name : CreateTag(f, n)
  \/ \E m \in Filed, fs \in SUBSET folders : SetFolder(m, fs)
  \/ \E t \in Tags : DeleteTag(t) \/ \E n \in Name : RenameTag(t, n)
  \/ \E c \in Setter : SetModuleTags(c)

FoldersSpec == FoldersInit /\ [][FoldersNext]_folderVars

-----------------------------------------------------------------------------
\* The tables keep their types and references, and the names of a folder's
\* tags differ, though they are looked up before they are written.
FoldersTypeOK ==
  /\ folders \subseteq foldersMade /\ foldersMade \subseteq Folder /\ lastTag \in 0 .. MaxTags
  /\ Tags \subseteq 1 .. lastTag /\ tag \in [Tags -> [folder : folders, name : Name]]
  /\ \A t, x \in Tags : t # x => tag[t] # tag[x]
  /\ member \subseteq Filed \X folders /\ tagged \subseteq Filed \X Tags
  /\ setting \in [Setter -> {NoRequest} \union TagRequest]
  /\ member \subseteq ever /\ ever \subseteq Filed \X foldersMade
  /\ wanted \in [Filed \X Folder -> [tags : SUBSET Tag, alone : BOOLEAN]]

Worn(m, f) == {t \in TagsOf(f) : <<m, t>> \in tagged}

\* A module wears no tag of a folder that was not asked for by the request
\* that set its tags in it last, or by one that overlapped that: nothing
\* older stays, though what is disconnected is listed before the transaction.
TagsAsked ==
  \A m \in Filed, f \in folders : Worn(m, f) \subseteq wanted[m, f].tags

\* If no request overlapped the last one, the module wears just the tags it
\* asked for that still exist, whatever went on with the tags and membership
\* of this and other folders during it and since.
TagsExact ==
  \A m \in Filed, f \in folders :
    wanted[m, f].alone => Worn(m, f) = wanted[m, f].tags \cap Tags

\* A module wears tags only of folders it has been in; of those it was taken
\* out of it may still, and a request checked before that may add them after.
TaggedWereMembers == \A mt \in tagged : <<mt[1], tag[mt[2]].folder>> \in ever
=============================================================================
