------------------------------- MODULE Client --------------------------------
(***************************************************************************)
(* The web client: one visit to one of its pages.  The pages share nothing *)
(* but the base in WebPage; which of them is visited is decided at the     *)
(* start, what happens then by the module of that page.                    *)
(***************************************************************************)
EXTENDS SearchSelection, BookingDialog, AreaEditor, FloorPlan, LoginPage,
        Preferences, UserEditor, BookingEditor, SettingsPage

ClientInit ==
    \/ SearchInit \/ DialogInit \/ AreaInit \/ PlanInit \/ LoginInit
    \/ PrefInit \/ UserInit \/ EditorInit \/ SettingsInit

ClientNext ==
    \/ SearchNext \/ DialogNext \/ AreaNext \/ PlanNext \/ LoginNext
    \/ PrefNext \/ UserNext \/ EditorNext \/ SettingsNext

(* Only for the search page is it said that anything happens: the calls of *)
(* a chain are answered, or fail.                                          *)
ClientSpec == ClientInit /\ [][ClientNext]_webVars /\ SearchFairness
=============================================================================
