-------------------------- MODULE ClientPages --------------------------
(***************************************************************************)
(* The pages of the client and the controls on them, in the order they     *)
(* are registered: tuiClientConnectPageInit, tuiClientLoginRegInit,        *)
(* tuiClientMainPageInit and tuiClientGameRoomLobbyInit.  A label takes no *)
(* focus and does nothing; of the labels only the one a thread shows is    *)
(* kept.  What a button does is kept as far as it changes the page, the    *)
(* visibility of a control or the end of the program; what it asks of the  *)
(* server decides between the alternatives.                                *)
(***************************************************************************)
EXTENDS Sequences, SequencesExt, FiniteSets

PageSeq == <<"connectPage", "loginPage", "regPage", "totpRecommendPage", "totpSetupPage",
             "totpVerifyPage", "homePage", "gamePage", "gameRoomLobbyPage">>

ConnectChildren(c) ==
    CASE c = "connectPage" -> <<"connectGrid">>
      [] c = "connectGrid" -> <<"connectAddressBox", "connectPortBox", "connectStatusLabel",
                                "connectButton", "connectExitButton">>
      [] OTHER -> <<>>

LoginRegChildren(c) ==
    CASE c = "loginPage" -> <<"loginGrid">>
      [] c = "loginGrid" -> <<"loginUsernameBox", "loginPasswordBox", "loginButton",
                              "loginToRegButton", "loginExit">>
      [] c = "regPage" -> <<"regGrid">>
      [] c = "regGrid" -> <<"regUsernameBox", "regNicknameBox", "regPasswordBox",
                            "regConfirmPasswordBox", "regButton", "regToLoginButton", "regExit">>
      [] c = "totpRecommendPage" -> <<"totpRecommendGrid">>
      [] c = "totpRecommendGrid" -> <<"totpRecommendYes", "totpRecommendNo">>
      [] c = "totpSetupPage" -> <<"totpSetupGrid">>
      [] c = "totpSetupGrid" -> <<"totpSetupDoneBtn">>
      [] c = "totpVerifyPage" -> <<"totpVerifyGrid">>
      [] c = "totpVerifyGrid" -> <<"totpVerifyBox", "totpVerifySubmit">>
      [] OTHER -> <<>>

MainPageChildren(c) ==
    CASE c = "homePage" -> <<"homePageGrid", "homeStatusGrid", "homeGameList", "homeOperGrid">>
      [] c = "homeStatusGrid" -> <<"homeStatusExit">>
      [] c = "homeOperGrid" -> <<"homeOperPlay", "homeOperRemoveGame", "homeOperServerGames",
                                 "homeOperDownloadGame", "homeOperRefreshDownloadableGames">>
      [] c = "gamePage" -> <<"gameGrid">>
      [] c = "gameGrid" -> <<"backBtn", "gameView">>
      [] OTHER -> <<>>

LobbyChildren(c) ==
    CASE c = "gameRoomLobbyPage" -> <<"gameRoomLobbyGrid">>
      [] c = "gameRoomLobbyGrid" ->
            <<"gameRoomLobbyRoomList", "gameRoomLobbyRefreshBtn", "gameRoomLobbyJoinBtn",
              "gameRoomLobbyCreateBtn", "gameRoomLobbyStartBtn", "gameRoomLobbyBackBtn",
              "gameRoomLobbyMemberBox">>
      [] OTHER -> <<>>

Children(c) == ConnectChildren(c) \o LoginRegChildren(c) \o MainPageChildren(c) \o LobbyChildren(c)

(* A page, its controls and theirs, each before its children.              *)
PreOrder(page) ==
    <<page>> \o FlattenSeq([i \in 1..Len(Children(page)) |->
                               <<Children(page)[i]>> \o Children(Children(page)[i])])

Subtree(page) == ToSet(PreOrder(page))
Controls == UNION {Subtree(p) : p \in ToSet(PageSeq)}
Containers == {c \in Controls : Children(c) # <<>>} \cup {"homePageGrid"}
InputBoxes == {"connectAddressBox", "connectPortBox", "loginUsernameBox", "loginPasswordBox",
               "regUsernameBox", "regNicknameBox", "regPasswordBox", "regConfirmPasswordBox",
               "totpVerifyBox"}
ListBoxes == {"homeGameList", "homeOperServerGames", "gameRoomLobbyRoomList"}
TextBoxes == {"gameRoomLobbyMemberBox"}
GameViews == {"gameView"}
Labels == {"connectStatusLabel"}
Buttons == Controls \ (Containers \cup InputBoxes \cup ListBoxes \cup TextBoxes \cup GameViews \cup Labels)
Focusable == Controls \ (Containers \cup Labels)
InitiallyHidden == {"connectStatusLabel", "gameRoomLobbyStartBtn"}

-----------------------------------------------------------------------------
(* What a click on a button may lead to.                                   *)
Nothing == [does |-> "nothing"]
Page(p) == [does |-> "page", to |-> p]
Show(c) == [does |-> "show", control |-> c]
Hide(c) == [does |-> "hide", control |-> c]
Connect == [does |-> "connect"]
Stop == [does |-> "stop"]

ConnectOnClick(c) ==
    CASE c = "connectButton" -> {Show("connectStatusLabel"), Connect}
      [] c = "connectExitButton" -> {Stop}
      [] OTHER -> {}

LoginRegOnClick(c) ==
    CASE c = "loginButton" ->
            {Nothing, Page("totpRecommendPage"), Page("totpVerifyPage"), Page("homePage")}
      [] c = "loginToRegButton" -> {Page("regPage")}
      [] c = "regButton" -> {Nothing}
      [] c = "regToLoginButton" -> {Page("loginPage")}
      [] c \in {"loginExit", "regExit"} -> {Page("connectPage")}
      [] c = "totpRecommendYes" -> {Page("totpSetupPage")}
      [] c = "totpRecommendNo" -> {Page("homePage")}
      [] c = "totpSetupDoneBtn" -> {Page("totpVerifyPage")}
      [] c = "totpVerifySubmit" -> {Page("loginPage"), Page("homePage")}
      [] OTHER -> {}

MainPageOnClick(c) ==
    CASE c = "homeStatusExit" -> {Stop}
      [] c = "homeOperPlay" -> {Nothing, Page("gameRoomLobbyPage")}
      [] c \in {"homeOperRemoveGame", "homeOperDownloadGame", "homeOperRefreshDownloadableGames"} -> {Nothing}
      [] c = "backBtn" -> {Page("homePage")}
      [] OTHER -> {}

LobbyOnClick(c) ==
    CASE c = "gameRoomLobbyRefreshBtn" -> {Nothing}
      [] c = "gameRoomLobbyJoinBtn" -> {Nothing, Hide("gameRoomLobbyStartBtn")}
      [] c = "gameRoomLobbyCreateBtn" -> {Nothing, Show("gameRoomLobbyStartBtn")}
      [] c = "gameRoomLobbyStartBtn" -> {Nothing, Page("gamePage")}
      [] c = "gameRoomLobbyBackBtn" -> {Page("homePage")}
      [] OTHER -> {}

OnClick(c) == ConnectOnClick(c) \cup LoginRegOnClick(c) \cup MainPageOnClick(c) \cup LobbyOnClick(c)

(* What the update of a page may lead to in any frame.                     *)
OnUpdate(page) == IF page = "gameRoomLobbyPage" THEN {Nothing, Page("gamePage")} ELSE {Nothing}

=============================================================================
