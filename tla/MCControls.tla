-------------------------- MODULE MCControls ---------------------------
EXTENDS ControlsProps

MCAppends == {<<"a", "b">>, <<"a", "_", "b", "_", "_", "a">>, <<"_", "a", "|">>, <<"b", "|", "|", "a">>,
              <<"a", "b", "a", "b", "a", "b", "a", "b">>}

=============================================================================
