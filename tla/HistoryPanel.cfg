SPECIFICATION Spec
CONSTANTS
  Entry <- Entries
  Heights <- WindowHeights
  MaxHistory = 3
INVARIANTS
  SelectedOnScreen
  ButtonTellsBusy
