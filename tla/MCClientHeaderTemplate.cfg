\* A template whose blob comes under the "header" key.
SPECIFICATION Spec
INVARIANT HeaderTemplateUsable
CHECK_DEADLOCK FALSE
