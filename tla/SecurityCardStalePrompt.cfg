\* A status change hides the change prompt while its flag stays set.
SPECIFICATION Spec
PROPERTY PromptOnlyOnClick
