--------------------------- MODULE PricingEditor ---------------------------
(***************************************************************************)
(* The model-pricing page of the console.                                  *)
(*                                                                         *)
(*   server    the pricing options as the server stores them               *)
(*   data      the options as last fetched                                 *)
(*   baseline  modelNormalizedDefaults: what the page takes the server to  *)
(*             hold, against which a save computes its updates             *)
(*   form      the draft: what the page would save                         *)
(*   save      the save under way: one PUT per changed option, in order    *)
(*   fetch     an invalidated query that has not been fetched again        *)
(*   blind     for the properties: a save began or failed before the page  *)
(*             had fetched what the one before it left                     *)
(*   panel     ModelPricingEditorPanel: the model being priced             *)
(*   ed        TieredPricingEditor, mounted while the panel shows its      *)
(*             expression tab                                              *)
(*                                                                         *)
(* React: a state change is followed by a render and by one pass of the    *)
(* component's effects, whose updates cause the next one.  Effects is one  *)
(* such pass of TieredPricingEditor; ed.dirty says that one is due.  React *)
(* finishes them before it handles the next event of the user.  The        *)
(* panel's own effect only follows a change of its model and is part of    *)
(* the action that changes it.                                             *)
(***************************************************************************)
EXTENDS Integers, PricingExpr

CONSTANTS
  Models,       \* the models of the table
  InitOptions,  \* what the server may hold to begin with
  RawTexts,     \* what the administrator may type as an expression
  DefaultRatio, \* the ratios the server resets to
  Presets,      \* the presets: an expression and its rules
  TierPrices,   \* prices typed into a tier
  LanePrices,   \* prices typed into the per-token form, Blank among them
  MaxTiers,     \* bound: tiers the administrator adds
  MaxGroups,    \* bound: rule groups the administrator adds
  MaxActs       \* bound: actions of the administrator

\* Numbers: a ratio is a multiple of 1/Scale, fine enough to be exact for the
\* prices of the instances; Blank is an empty field.
Scale == 1024
Blank == -1
Price == Nat \cup {Blank}

\* The pricing options: one map from model names per option.
PricingOptions ==
  [ratio : [Models -> Price], completion : [Models -> Price],
   audioInput : [Models -> Price], audioOutput : [Models -> Price],
   mode : [Models -> {"none", "tiered"}], expr : [Models -> Exprs]]

ASSUME ConstantsOK ==
  /\ Models # {} /\ InitOptions \subseteq PricingOptions
  /\ DefaultRatio \in [Models -> Price] /\ RawTexts \subseteq Exprs
  /\ Presets \subseteq [expr : Exprs, rules : Seq(Groups)]
  /\ \A p \in Presets : p.expr.layers = <<>>
  /\ TierPrices \subseteq Nat /\ LanePrices \subseteq Price
  /\ {MaxTiers, MaxGroups, MaxActs} \subseteq Nat

VARIABLES server, data, baseline, form, save, fetch, blind, panel, ed, acts

page == <<server, data, baseline, form, save, fetch, blind>>
vars == <<server, data, baseline, form, save, fetch, blind, panel, ed, acts>>
----------------------------------------------------------------------------
Lanes == {"completion", "audioInput", "audioOutput"}
Keys  == <<"ratio", "completion", "audioInput", "audioOutput", "mode", "expr">>

\* deriveLanePrice and deriveLaneRatio
LanePrice(ratio, base) ==
  IF ratio = Blank \/ base = Blank THEN Blank ELSE (ratio * base) \div Scale
LaneRatio(price, base) ==
  IF price = Blank \/ base = Blank \/ base = 0 THEN Blank ELSE (price * Scale) \div base

\* The price a lane's ratio is relative to.
BaseOf(lane, prompt, price) == IF lane = "audioOutput" THEN price.audioInput ELSE prompt
----------------------------------------------------------------------------
\* The draft

\* buildModelSnapshots and handleEdit: the prices of a model, ready to be edited.
EditData(o, m) ==
  LET tiered == o.mode[m] = "tiered"
      split  == Split(o.expr[m])
  IN [name  |-> m,
      mode  |-> IF tiered THEN "tiered" ELSE "token",
      bexpr |-> IF tiered THEN split.base ELSE NoExpr,
      rules |-> IF tiered THEN split.rules ELSE <<>>,
      ratio |-> o.ratio[m],
      lane  |-> [l \in Lanes |-> o[l][m]]]

\* persistPricingData: the entries of the models are replaced by the edited
\* ones; the ratios of a model priced by expression are kept as a fallback.
Persist(o, d, targets) ==
  LET combined == IF d.mode = "tiered" THEN Combine(d.bexpr, d.rules) ELSE NoExpr
      Put(f, v) == [m \in Models |-> IF m \in targets THEN v ELSE f[m]]
  IN [ratio       |-> Put(o.ratio, d.ratio),
      completion  |-> Put(o.completion, d.lane.completion),
      audioInput  |-> Put(o.audioInput, d.lane.audioInput),
      audioOutput |-> Put(o.audioOutput, d.lane.audioOutput),
      mode        |-> Put(o.mode, IF combined = NoExpr THEN "none" ELSE "tiered"),
      expr        |-> Put(o.expr, combined)]

NoPricing(m) == [name |-> m, mode |-> "token", bexpr |-> NoExpr, rules |-> <<>>,
                 ratio |-> Blank, lane |-> [l \in Lanes |-> Blank]]

\* A row of the table: the draft of a model if it has one, and what was saved
\* of it otherwise, so that a model deleted from the draft opens as it was.
RowData(m) == IF EditData(form, m) # NoPricing(m) THEN EditData(form, m)
              ELSE EditData(baseline, m)
----------------------------------------------------------------------------
\* The panel

\* createInitialLaneState: the prices a model's ratios stand for.
InitialPrices(d) ==
  LET prompt == IF d.ratio = Blank THEN Blank ELSE d.ratio * 2
      audio  == LanePrice(d.lane.audioInput, prompt)
  IN [prompt |-> prompt,
      price  |-> [completion  |-> LanePrice(d.lane.completion, prompt),
                  audioInput  |-> audio,
                  audioOutput |-> LanePrice(d.lane.audioOutput, audio)]]

\* The panel's effect on a new editData; saved says that there is one, and the
\* name is then fixed.  For the properties, seen and touched record the
\* expression that was opened and whether it has been edited, and odd that
\* rules were reported that the parser refuses, or a price was given or typed
\* that has rules nested in it.
PanelFor(d, saved) ==
  [open    |-> TRUE, saved |-> saved, named |-> saved, name |-> d.name, mode |-> d.mode,
   bexpr   |-> d.bexpr, rules |-> d.rules, ratio |-> d.ratio, lane |-> d.lane,
   prompt  |-> InitialPrices(d).prompt, price |-> InitialPrices(d).price,
   on      |-> [l \in Lanes |-> d.lane[l] # Blank],
   seen    |-> Combine(d.bexpr, d.rules), touched |-> FALSE, odd |-> Nested(d.bexpr)]

Closed == [PanelFor(NoPricing(CHOOSE m \in Models : TRUE), FALSE) EXCEPT !.open = FALSE]

Unmounted == [on |-> FALSE, mode |-> "visual", cfg |-> NullConfig, raw |-> NoExpr,
              groups |-> <<>>, init |-> FALSE, fresh |-> FALSE, renamed |-> FALSE,
              last |-> <<NoExpr, <<>>>>, dirty |-> FALSE]

\* A mount of TieredPricingEditor: its initial state, its effects still due.
Mounted(p) ==
  IF p.open /\ p.mode = "tiered"
  THEN [Unmounted EXCEPT !.on = TRUE, !.cfg = TryParseVisual(p.bexpr),
                         !.raw = Combine(p.bexpr, p.rules),
                         !.groups = ParsedGroups(p.rules),
                         !.fresh = TRUE, !.dirty = TRUE]
  ELSE Unmounted

\* The editor re-mounts for every new editData (its key is editorReloadToken).
Show(d, saved) ==
  /\ panel' = PanelFor(d, saved)
  /\ ed' = Mounted(panel')
Close == panel' = Closed /\ ed' = Unmounted
----------------------------------------------------------------------------
\* The effects of TieredPricingEditor

\* Seeded bug: the expression view reports its rules as part of the price.
EffectiveWhole == IF ed.mode = "visual" THEN GenerateExpr(ed.cfg) ELSE ed.raw

\* effectiveExpr
EffectiveExpr == IF ed.mode = "visual" THEN GenerateExpr(ed.cfg) ELSE Split(ed.raw).base

\* Seeded bug: initRef is not consulted.
InitAlwaysDue == ed.fresh \/ ed.last # <<panel.bexpr, panel.rules>>

\* The initialising effect: due when the expression or the rules it was given
\* have changed, until initRef says it has run.
InitDue == ~ed.init /\ (ed.fresh \/ ed.last # <<panel.bexpr, panel.rules>>)

\* The editor's own state after the initialising effect.
Initialised ==
  LET parsed == TryParseVisual(panel.bexpr)
  IN [ed EXCEPT !.cfg = IF parsed # NullConfig THEN parsed
                        ELSE IF panel.bexpr # NoExpr THEN NullConfig ELSE DefaultConfig,
                !.mode = IF parsed # NullConfig THEN "visual"
                         ELSE IF panel.bexpr # NoExpr THEN "raw" ELSE @,
                !.raw = Combine(panel.bexpr, panel.rules),
                !.groups = ParsedGroups(panel.rules)]

\* One pass of the effects, in the order they are declared: initialise; forget
\* that on a new model name; report the expression; report the rules.
Effects ==
  LET next   == IF InitDue THEN Initialised ELSE ed
      expr   == EffectiveExpr
      rules  == IF ed.mode = "visual" THEN BuildRules(ed.groups) ELSE panel.rules
      forget == ed.fresh \/ ed.renamed
  IN /\ ed.dirty
     /\ panel' = [panel EXCEPT !.bexpr = expr, !.rules = rules,
                               !.odd = @ \/ ~CanParseRules(rules)]
     /\ ed' = [next EXCEPT !.init = ~forget /\ (ed.init \/ InitDue),
                           !.fresh = FALSE, !.renamed = FALSE,
                           !.last = <<panel.bexpr, panel.rules>>,
                           !.dirty = \/ expr # panel.bexpr
                                     \/ rules # panel.rules
                                     \/ next # ed]
     /\ UNCHANGED <<page, acts>>
----------------------------------------------------------------------------
\* The administrator.  Every event waits for React to settle.
Event == ~ed.dirty /\ acts < MaxActs /\ acts' = acts + 1

\* handleEdit
HandleEdit(m) ==
  /\ Event
  /\ Show(RowData(m), TRUE)
  /\ UNCHANGED page

\* handleAdd, which does nothing while the panel is open for a new model, and
\* the name typed into the empty form
HandleAdd ==
  /\ Event /\ (panel.open => panel.saved)
  /\ Show(NoPricing(CHOOSE m \in Models : TRUE), FALSE)
  /\ UNCHANGED page
TypeName(m) ==
  /\ Event /\ panel.open /\ ~panel.saved
  /\ panel.named => panel.name # m
  /\ panel' = [panel EXCEPT !.named = TRUE, !.name = m]
  /\ ed' = IF ed.on THEN [ed EXCEPT !.renamed = TRUE, !.dirty = TRUE] ELSE ed
  /\ UNCHANGED page

\* handleGlobalFilterChange: a new search closes the panel
CloseBySearch ==
  /\ Event /\ panel.open
  /\ Close
  /\ UNCHANGED page

\* handleModeChange of the panel: the other tab's content is unmounted
SelectTab(mode) ==
  /\ Event /\ panel.open /\ panel.mode # mode
  /\ panel' = [panel EXCEPT !.mode = mode,
                 !.bexpr = IF mode = "tiered" /\ @ = NoExpr
                           THEN GenerateExpr(DefaultConfig) ELSE @]
  /\ ed' = Mounted(panel')
  /\ UNCHANGED page

\* The per-token form
InTokens == Event /\ panel.open /\ panel.mode = "token" /\ UNCHANGED <<page, ed>>

\* handlePromptPriceChange and syncLaneRatios
HandlePromptPrice(v) ==
  /\ InTokens
  /\ panel' = [panel EXCEPT !.prompt = v,
                 !.ratio = IF v = Blank THEN Blank ELSE v \div 2,
                 !.lane = [l \in Lanes |->
                             IF panel.on[l]
                             THEN LaneRatio(panel.price[l], BaseOf(l, v, panel.price))
                             ELSE Blank]]

\* audioOutput waits for an audio input price
LaneDisabled(l) ==
  l = "audioOutput" /\ (~panel.on.audioInput \/ panel.price.audioInput = Blank)

\* Seeded bug: the ratio of the dependent lane is not derived again.
LanePriceAlone(l, v) ==
  LET price == [panel.price EXCEPT ![l] = v]
  IN /\ InTokens /\ panel.on[l] /\ ~LaneDisabled(l)
     /\ panel' = [panel EXCEPT !.price = price,
                    !.lane[l] = LaneRatio(v, BaseOf(l, panel.prompt, price))]

\* handleLanePriceChange
HandleLanePrice(l, v) ==
  LET price == [panel.price EXCEPT ![l] = v]
      own   == [panel.lane EXCEPT ![l] = LaneRatio(v, BaseOf(l, panel.prompt, price))]
  IN /\ InTokens /\ panel.on[l] /\ ~LaneDisabled(l)
     /\ panel' = [panel EXCEPT !.price = price,
                    !.lane = IF l = "audioInput" /\ panel.on.audioOutput
                             THEN [own EXCEPT !.audioOutput = LaneRatio(price.audioOutput, v)]
                             ELSE own]

\* handleLaneToggle
HandleLaneToggle(l) ==
  LET off == IF l = "audioInput" THEN {"audioInput", "audioOutput"} ELSE {l}
  IN /\ InTokens /\ ~LaneDisabled(l)
     /\ panel' =
          IF panel.on[l]
          THEN [panel EXCEPT !.on    = [k \in Lanes |-> @[k] /\ k \notin off],
                             !.price = [k \in Lanes |-> IF k \in off THEN Blank ELSE @[k]],
                             !.lane  = [k \in Lanes |-> IF k \in off THEN Blank ELSE @[k]]]
          ELSE [panel EXCEPT !.on[l] = TRUE,
                             !.lane[l] = LaneRatio(panel.price[l],
                                            BaseOf(l, panel.prompt, panel.price))]
----------------------------------------------------------------------------
\* The visual editor
InVisual == Event /\ ed.on /\ ed.mode = "visual" /\ UNCHANGED page

EditConfig(cfg) ==
  /\ ed' = [ed EXCEPT !.cfg = cfg, !.dirty = TRUE]
  /\ panel' = [panel EXCEPT !.touched = TRUE]

\* normalizeVisualConfig: the editor shows the default for a null configuration
Config == IF ed.cfg = NullConfig THEN DefaultConfig ELSE ed.cfg

\* handleAddTier: a catch-all that stops being the last gets a condition
HandleAddTier ==
  /\ InVisual /\ Len(Config) < MaxTiers
  /\ LET n == Len(Config)
         bounded == IF Config[n].conds = {}
                    THEN [Config EXCEPT ![n].conds = {"len"}] ELSE Config
     IN EditConfig(Append(bounded, Tier({}, 0)))

\* Seeded bug: the only tier can be removed too.
RemoveAnyTier(i) ==
  /\ InVisual
  /\ EditConfig(RemoveAt(Config, i))

\* handleRemoveTier: the last tier stays
HandleRemoveTier(i) ==
  /\ InVisual /\ Len(Config) > 1
  /\ EditConfig(RemoveAt(Config, i))

\* handleAddCondition: len first, c second, no more than two
HandleAddCondition(i) ==
  /\ InVisual /\ Cardinality(Config[i].conds) < 2
  /\ EditConfig([Config EXCEPT ![i].conds =
                   @ \cup {IF "len" \in @ THEN "c" ELSE "len"}])

\* handleConditionRemove
HandleRemoveCondition(i, c) ==
  /\ InVisual /\ c \in Config[i].conds
  /\ EditConfig([Config EXCEPT ![i].conds = @ \ {c}])

\* handlePriceChange
HandleTierPrice(i, v) ==
  /\ InVisual
  /\ EditConfig([Config EXCEPT ![i].price = v])

\* handleRuleGroupsChange; rules the parser refuses hide the rule editor
EditGroups(groups) ==
  /\ InVisual /\ CanParseRules(panel.rules)
  /\ ed' = [ed EXCEPT !.groups = groups, !.dirty = TRUE]
  /\ panel' = [panel EXCEPT !.touched = TRUE]

AddGroup == Len(ed.groups) < MaxGroups /\ EditGroups(Append(ed.groups, "blank"))
RemoveGroup(i) == EditGroups(RemoveAt(ed.groups, i))
ChangeGroup(i, g) == ed.groups[i] # g /\ EditGroups([ed.groups EXCEPT ![i] = g])

\* handleRawChange
HandleRawChange(text) ==
  /\ Event /\ ed.on /\ ed.mode = "raw"
  /\ ed' = [ed EXCEPT !.raw = text, !.dirty = TRUE]
  /\ panel' = [panel EXCEPT !.rules = Split(text).rules, !.touched = TRUE,
                            !.odd = @ \/ Nested(Split(text).base)]
  /\ UNCHANGED page

\* handleModeChange of the editor: each view takes over what the other shows
SwitchToVisual ==
  LET split  == Split(ed.raw)
      parsed == TryParseVisual(split.base)
  IN /\ Event /\ ed.on /\ ed.mode = "raw"
     /\ ed' = [ed EXCEPT !.mode = "visual",
                         !.cfg = IF parsed # NullConfig THEN parsed ELSE DefaultConfig,
                         !.groups = ParsedGroups(split.rules), !.dirty = TRUE]
     /\ panel' = [panel EXCEPT !.rules = split.rules]
     /\ UNCHANGED page
SwitchToRaw ==
  /\ Event /\ ed.on /\ ed.mode = "visual"
  /\ ed' = [ed EXCEPT !.mode = "raw", !.dirty = TRUE,
                      !.raw = Combine(GenerateExpr(ed.cfg), BuildRules(ed.groups))]
  /\ UNCHANGED <<page, panel>>

\* applyPreset
ApplyPreset(preset) ==
  LET parsed == TryParseVisual(preset.expr)
  IN /\ Event /\ ed.on
     /\ ed' = [ed EXCEPT !.raw = Combine(preset.expr, BuildRules(preset.rules)),
                         !.cfg = parsed, !.groups = preset.rules, !.dirty = TRUE,
                         !.mode = IF parsed # NullConfig THEN "visual" ELSE "raw"]
     /\ panel' = [panel EXCEPT !.rules = BuildRules(preset.rules), !.touched = TRUE]
     /\ UNCHANGED page
----------------------------------------------------------------------------
\* Staging and saving

\* commitDraft: a name, and a base for every dependent price
CanCommit ==
  /\ panel.open /\ panel.named
  /\ panel.mode = "token" =>
       /\ panel.prompt = Blank => \A l \in Lanes : ~(panel.on[l] /\ panel.price[l] # Blank)
       /\ panel.on.audioOutput => panel.price.audioInput # Blank

\* buildSubmitData
Committed ==
  [name |-> panel.name, mode |-> panel.mode, ratio |-> panel.ratio, lane |-> panel.lane,
   bexpr |-> IF panel.mode = "tiered" THEN panel.bexpr ELSE NoExpr,
   rules |-> IF panel.mode = "tiered" THEN panel.rules ELSE <<>>]

\* saveModelRatios: the options that differ from the baseline
Updates(values) == {k \in Range(Keys) : values[k] # baseline[k]}
StartSave(values) ==
  IF Updates(values) = {} THEN UNCHANGED <<save, blind>>
  ELSE /\ save' = [left |-> Updates(values), values |-> values]
       /\ blind' = (blind \/ baseline # server)
Saving == save.left # {}

\* handleSave with the panel open (commitOpenEditor), and from the JSON view
HandleSave ==
  /\ Event /\ ~Saving /\ CanCommit
  /\ form' = Persist(form, Committed, {panel.name})
  /\ StartSave(form')
  /\ Show(Committed, TRUE)
  /\ UNCHANGED <<server, data, baseline, fetch>>
SaveDraft ==
  /\ Event /\ ~Saving /\ ~panel.open
  /\ StartSave(form)
  /\ UNCHANGED <<server, data, baseline, form, fetch, panel, ed>>

\* handleBatchCopy: the open model's prices, for the selected ones too
HandleBatchCopy(targets) ==
  /\ Event /\ CanCommit /\ panel.saved
  /\ form' = Persist(form, Committed, targets \cup {panel.name})
  /\ Show(Committed, TRUE)
  /\ UNCHANGED <<server, data, baseline, save, fetch, blind>>

\* handleDelete
HandleDelete(m) ==
  /\ Event
  /\ form' = Persist(form, NoPricing(m), {m})
  /\ IF panel.open /\ panel.saved /\ panel.name = m THEN Close ELSE UNCHANGED <<panel, ed>>
  /\ UNCHANGED <<server, data, baseline, save, fetch, blind>>

\* handleConfirmReset and ResetModelRatio: the server's ratios only; the page
\* learns of it by the fetch that follows, unless that finds what it found last.
ConfirmReset ==
  /\ Event
  /\ server' = [server EXCEPT !.ratio = DefaultRatio]
  /\ fetch' = TRUE /\ blind' = (blind \/ baseline # data)
  /\ UNCHANGED <<data, baseline, form, save, panel, ed>>

\* One PUT of the save, in the order of the record.  Its success invalidates
\* the query; after the last one the page takes the saved values for the
\* server's.
NextKey == Keys[CHOOSE i \in DOMAIN Keys :
                  /\ Keys[i] \in save.left
                  /\ \A j \in DOMAIN Keys : Keys[j] \in save.left => i <= j]
Stored  == [server EXCEPT ![NextKey] = save.values[NextKey]]
Advance ==
  /\ save' = [save EXCEPT !.left = @ \ {NextKey}]
  /\ baseline' = IF save'.left = {} THEN save.values ELSE baseline

\* Seeded bug: a failed save is taken for a finished one.
AbandonAsSaved == save' = [save EXCEPT !.left = {}] /\ baseline' = save.values

\* mutateAsync throws: the rest of the loop, and the new baseline, are skipped.
Abandon == save' = [save EXCEPT !.left = {}] /\ UNCHANGED baseline

UpdateOption ==
  /\ Saving
  /\ server' = Stored /\ fetch' = TRUE
  /\ Advance
  /\ UNCHANGED <<data, form, blind, panel, ed, acts>>

\* The server refuses it, or its answer is lost: mutateAsync throws, and the
\* options after it are not sent.  No fetch
\* follows a lost answer, and the one of an earlier save that is still to come
\* may find what was fetched before that save.
UpdateRefused ==
  /\ Saving
  /\ blind' = (blind \/ baseline # data)
  /\ Abandon
  /\ UNCHANGED <<server, data, form, fetch, panel, ed, acts>>
UpdateAnswerLost ==
  /\ Saving
  /\ server' = Stored /\ blind' = TRUE
  /\ Abandon
  /\ UNCHANGED <<data, form, fetch, panel, ed, acts>>

\* The query is fetched again; new data resets the baseline and the form.
Refetch ==
  /\ fetch
  /\ fetch' = FALSE /\ data' = server
  /\ IF server = data THEN UNCHANGED <<baseline, form, blind>>
     ELSE baseline' = server /\ form' = server /\ blind' = (blind /\ Saving)
  /\ UNCHANGED <<server, save, panel, ed, acts>>
----------------------------------------------------------------------------
Init ==
  /\ server \in InitOptions
  /\ data = server /\ baseline = server /\ form = server
  /\ save = [left |-> {}, values |-> server]
  /\ fetch = FALSE /\ blind = FALSE
  /\ panel = Closed /\ ed = Unmounted
  /\ acts = 0

Choose    == HandleAdd \/ CloseBySearch \/ \E m \in Models : HandleEdit(m) \/ TypeName(m)
PriceTokens ==
  \E v \in LanePrices, l \in Lanes :
    HandlePromptPrice(v) \/ HandleLanePrice(l, v) \/ HandleLaneToggle(l)
EditTiers ==
  \/ HandleAddTier
  \/ ed.on /\ \E i \in DOMAIN Config :
       \/ HandleRemoveTier(i) \/ HandleAddCondition(i)
       \/ \E c \in Conditions : HandleRemoveCondition(i, c)
       \/ \E v \in TierPrices : HandleTierPrice(i, v)
EditRules ==
  \/ AddGroup
  \/ \E i \in DOMAIN ed.groups : RemoveGroup(i) \/ \E g \in Groups : ChangeGroup(i, g)
EditText ==
  \/ \E t \in RawTexts : HandleRawChange(t)
  \/ \E p \in Presets : ApplyPreset(p)
Views == SwitchToVisual \/ SwitchToRaw \/ \E mode \in {"token", "tiered"} : SelectTab(mode)
Stage == \/ HandleSave \/ SaveDraft \/ ConfirmReset
         \/ \E m \in Models : HandleDelete(m)
         \/ \E targets \in SUBSET Models \ {{}} : HandleBatchCopy(targets)

Next ==
  \/ Effects
  \/ Choose \/ PriceTokens \/ EditTiers \/ EditRules \/ EditText \/ Views \/ Stage
  \/ UpdateOption \/ UpdateRefused \/ UpdateAnswerLost \/ Refetch

Spec == Init /\ [][Next]_vars

\* React runs the effects of a committed render.
FairSpec == Spec /\ WF_vars(Effects)
----------------------------------------------------------------------------
\* Properties

\* The types of the page's state; the editor is mounted exactly while the
\* panel shows its expression tab, and a settled visual view has a tier.
TypeOK ==
  /\ {server, data, baseline, form, save.values} \subseteq PricingOptions
  /\ save.left \subseteq Range(Keys) /\ {fetch, blind} \subseteq BOOLEAN
  /\ panel.name \in Models /\ panel.mode \in {"token", "tiered"}
  /\ panel.bexpr \in Exprs /\ panel.rules \in Seq(Rules)
  /\ {panel.prompt, panel.ratio} \subseteq Price
  /\ panel.lane \in [Lanes -> Price] /\ panel.price \in [Lanes -> Price]
  /\ ed.on = (panel.open /\ panel.mode = "tiered")
  /\ ed.mode \in {"visual", "raw"} /\ ed.raw \in Exprs
  /\ ed.cfg \in Seq(Tiers) /\ ed.groups \in Seq(Groups)
  /\ ed.on /\ ~ed.dirty /\ ed.mode = "visual" => ed.cfg # NullConfig
  /\ acts \in 0..MaxActs

Settled == ed.on /\ ~ed.dirty
Staged  == Combine(panel.bexpr, panel.rules)
Shown   == IF ed.mode = "visual" THEN Combine(GenerateExpr(ed.cfg), BuildRules(ed.groups))
           ELSE ed.raw

\* Once the effects of TieredPricingEditor have settled, what the page would
\* save charges every request what the editor shows, whichever of its views
\* is open and however it was reached.  Rules that the parser does not read
\* back are left out: switching to the expression view then counts them twice.
\* So are nested ones, readable rules inside the price itself: the initialising
\* effect, due again after a new model name, takes them for the price's own.
ShownIsStaged == Settled /\ ~panel.odd => Charges(Staged) = Charges(Shown)

\* What the visual editor can represent: tiers, and rules that parse.
Representable(e) ==
  /\ e.body.kind = "tiers"
  /\ Len(e.layers) <= 1
  /\ \A i \in DOMAIN e.layers : CanParseRules(e.layers[i])

\* Opening a price and looking at it in either view, without an edit, leaves
\* what it charges as it was, for a price the visual editor can represent.
ViewKeepsPrice ==
  Settled /\ ~panel.touched /\ ~panel.odd /\ Representable(panel.seen)
    => Charges(Staged) = Charges(panel.seen)

\* The same of every price, as the editor's text promises for the ones that
\* are too complex for the visual editor.
OpenKeepsPrice ==
  Settled /\ ~panel.touched /\ panel.seen # NoExpr
    => Charges(Staged) = Charges(panel.seen)

\* The ratios that the price of a lane is stored as are not rounded: there is
\* a price to divide by, and the quotient has no more digits than are stored.
Whole(price, base) == base # 0 /\ (price * Scale) % base = 0
Exact(l) ==
  /\ panel.prompt % 2 = 0
  /\ Whole(panel.price[l], BaseOf(l, panel.prompt, panel.price))
  /\ l = "audioOutput" => Whole(panel.price.audioInput, panel.prompt)

\* The prices of the per-token form are what staging them and opening the
\* model again would show, through the ratios they are stored as, in whatever
\* order they were typed and switched on and off.  formatPricingNumber rounds
\* the ratios, so that only prices with an exact one return; a base price of
\* zero has no ratio, and its dependent prices are lost.
StagedPricesReturn ==
  CanCommit /\ panel.mode = "token" =>
    LET back == InitialPrices(EditData(Persist(form, Committed, {panel.name}), panel.name))
    IN /\ panel.prompt = Blank \/ panel.prompt % 2 = 0 => back.prompt = panel.prompt
       /\ \A l \in Lanes :
            IF panel.on[l] /\ panel.price[l] # Blank
            THEN Exact(l) => back.price[l] = panel.price[l]
            ELSE ~panel.on[l] => back.price[l] = Blank

\* With no save and no fetch under way, the page's idea of what the server
\* holds is right, also after a save that failed half-way: the next save sends
\* exactly the differences.  The exceptions are an answer that was lost, a save
\* that begins before the fetch after a failed one has arrived, and a save that
\* fails, or a reset, before the fetch of the save before it has.
BaselineIsTrue == ~Saving /\ ~fetch /\ ~blind => baseline = server

\* The effects come to rest: the reports of TieredPricingEditor to the panel
\* and its initialisation from what the panel hands back do not chase each
\* other for ever.
Settles == ed.dirty ~> ~ed.dirty
=============================================================================
